---- MODULE Spec2Model ----
(***************************************************************************)
(* Navigation / view-state engine of the nobsrom launcher                  *)
(* (src/src/nobsrom/main.py, class EmulatorLauncher).                      *)
(*                                                                         *)
(* Strings are sequences of ASCII codes, so that os.path.basename,         *)
(* str.lower and the substring test of the filter are computed, not        *)
(* assumed.  Python dicts are insertion-ordered: a dict is a sequence of   *)
(* entries [k |-> key, v |-> value].  Python tuples (system, rom) are      *)
(* pairs <<system, rom>>.  Indices are 0-based as in the source.           *)
(***************************************************************************)
EXTENDS Integers, Sequences, FiniteSets, TLC

(* ------------------------------ bounds -------------------------------- *)
\* longest filter string that is typed
MaxFilterLen == 2

(* --------------------------- key codes -------------------------------- *)
KEY_ESCAPE == 27
KEY_ENTER == 10
KEY_DEL == 127
KEY_BS == 8
KEY_DOWN == 258
KEY_UP == 259
KEY_LEFT == 260
KEY_RIGHT == 261
KEY_BACKSPACE == 263
KEY_F2 == 266
KEY_RESIZE == 410
KEY_SLASH == 47
KEY_Q == 113

\* controller buttons
BUTTON_A == 0
BUTTON_B == 1
BUTTON_X == 2
BUTTON_OTHER == 3

\* the printable keys that are typed in the model: '/' and 'q'
PrintableKeys == {KEY_SLASH, KEY_Q}

Keys ==
    {KEY_ESCAPE, KEY_ENTER, KEY_DEL, KEY_BS, KEY_BACKSPACE, KEY_UP, KEY_DOWN,
     KEY_LEFT, KEY_RIGHT, KEY_F2, KEY_RESIZE} \cup PrintableKeys

Buttons == {BUTTON_A, BUTTON_B, BUTTON_X, BUTTON_OTHER}

\* what subprocess.Popen can do
SpawnOutcomes == {"ok", "FileNotFoundError", "OSError"}

\* only the Enter key reaches Popen
OutcomesOf(key) == IF key = KEY_ENTER THEN SpawnOutcomes ELSE {"ok"}

(* ------------------------- string functions --------------------------- *)
Min(a, b) == IF a < b THEN a ELSE b

Max(a, b) == IF a > b THEN a ELSE b

\* os.path.basename: what follows the last '/'
basename(p) ==
    LET slashes == {i \in 1..Len(p) : p[i] = 47}
    IN  IF slashes = {} THEN p
        ELSE LET last == CHOOSE i \in slashes : \A j \in slashes : j <= i
             IN  SubSeq(p, last + 1, Len(p))

\* str.lower on ASCII
lower(s) == [i \in 1..Len(s) |-> IF s[i] >= 65 /\ s[i] <= 90 THEN s[i] + 32 ELSE s[i]]

\* Python's  sub in s  for strings
StrContains(sub, s) ==
    \E i \in 0..(Len(s) - Len(sub)) : SubSeq(s, i + 1, i + Len(sub)) = sub

RECURSIVE StrLess(_, _)
\* Python's  a < b  for strings
StrLess(a, b) ==
    IF b = <<>> THEN FALSE
    ELSE IF a = <<>> THEN TRUE
    ELSE IF a[1] < b[1] THEN TRUE
    ELSE IF a[1] > b[1] THEN FALSE
    ELSE StrLess(Tail(a), Tail(b))

\* a filter that matches the end of the name only
FilterMatches_Suffix(filter, rom) ==
    LET name == lower(basename(rom))
        f == lower(filter)
    IN  Len(f) <= Len(name) /\ SubSeq(name, Len(name) - Len(f) + 1, Len(name)) = f

\* the filter test of update_filtered_roms (lines 560, 566, 573)
FilterMatches(filter, rom) == StrContains(lower(filter), lower(basename(rom)))

(* --------------------------- dict functions --------------------------- *)
DictKeys(d) == [i \in 1..Len(d) |-> d[i].k]

DictHas(d, key) == \E i \in 1..Len(d) : d[i].k = key

DictGet(d, key, default) ==
    IF DictHas(d, key) THEN d[CHOOSE i \in 1..Len(d) : d[i].k = key].v ELSE default

\* d[key] = value: an existing key keeps its position, a new key goes last
DictSet(d, key, value) ==
    IF DictHas(d, key)
    THEN [i \in 1..Len(d) |-> IF d[i].k = key THEN [k |-> key, v |-> value] ELSE d[i]]
    ELSE Append(d, [k |-> key, v |-> value])

\* del d[key]
DictDel(d, key) ==
    LET Keep(e) == e.k # key IN SelectSeq(d, Keep)

ListHas(l, x) == \E i \in 1..Len(l) : l[i] = x

\* list.remove: drops the first occurrence
ListRemove(l, x) ==
    LET first == CHOOSE i \in 1..Len(l) : l[i] = x /\ \A j \in 1..(i - 1) : l[j] # x
    IN  SubSeq(l, 1, first - 1) \o SubSeq(l, first + 1, Len(l))

\* Python indexing l[i], i an in-range 0-based or negative index
InRange(l, i) == i >= -Len(l) /\ i < Len(l)

PyIndex(l, i) == IF i >= 0 THEN l[i + 1] ELSE l[Len(l) + i + 1]

(* ------------------------------ catalogs ------------------------------ *)
\* "n/b", "m/Q": files of two directories
P_n_b == <<110, 47, 98>>

P_m_Q == <<109, 47, 81>>

\* "p/b", "p/Qq", "p/q", "p/qb", "p/qQ": files of a system that is no longer configured
P_p_b == <<112, 47, 98>>

P_p_Qq == <<112, 47, 81, 113>>

P_p_q == <<112, 47, 113>>

P_p_qb == <<112, 47, 113, 98>>

P_p_qQ == <<112, 47, 113, 81>>

\* config with  systems: {}
CatNone == <<>>

\* three systems: NES with two directories, SNES with an invalid directory,
\* GB with the first directory of NES
CatThree ==
    << [k |-> "NES", v |-> <<P_n_b, P_m_Q>>],
       [k |-> "SNES", v |-> <<>>],
       [k |-> "GB", v |-> <<P_n_b>>] >>

\* favorites.yaml as a previous session left it
FavNone == <<>>

FavGB == << [k |-> "GB", v |-> <<P_n_b>>] >>

FavFive == << [k |-> "PSX", v |-> <<P_p_b, P_p_Qq, P_p_q, P_p_qb, P_p_qQ>>] >>

\* (get_roms() result, load_favorites() result) at startup
Sessions ==
    { <<CatNone, FavNone>>, <<CatNone, FavFive>>,
      <<CatThree, FavNone>>, <<CatThree, FavGB>> }

(* --------------------------- configuration ---------------------------- *)
\* directories "n" and "m", and "x" that does not exist
D_n == <<110>>

D_m == <<109>>

D_x == <<120>>

\* "~/ROMs/NES", the path of the default configuration (line 128)
D_default == <<126, 47, 82, 79, 77, 115, 47, 78, 69, 83>>

\* os.path.isdir
IsDir(path) == path \in {D_n, D_m}

\* os.listdir: "n" holds "b" and the hidden ".h", "m" holds "Q"
ListDir(path) ==
    IF path = D_n THEN << <<98>>, <<46, 104>> >>
    ELSE IF path = D_m THEN << <<81>> >>
    ELSE <<>>

\* what yaml.safe_load makes of config.yaml: kind "invalid" raises, "empty"
\* gives None, "scalar" a value that is no mapping, "mapping" a dict whose
\* "systems" entry, if any, maps each system to the list of its paths
TextInvalid == [kind |-> "invalid", has_systems |-> FALSE, systems |-> <<>>]

TextEmpty == [kind |-> "empty", has_systems |-> FALSE, systems |-> <<>>]

TextScalar == [kind |-> "scalar", has_systems |-> FALSE, systems |-> <<>>]

TextNoSystems == [kind |-> "mapping", has_systems |-> FALSE, systems |-> <<>>]

TextNone == [kind |-> "mapping", has_systems |-> TRUE, systems |-> <<>>]

TextThree ==
    [kind |-> "mapping", has_systems |-> TRUE,
     systems |-> << [k |-> "NES", v |-> <<D_n, D_m>>],
                    [k |-> "SNES", v |-> <<D_x>>],
                    [k |-> "GB", v |-> <<D_n>>] >>]

\* lines 123-131
DefaultConfig ==
    [kind |-> "mapping", has_systems |-> TRUE,
     systems |-> << [k |-> "NES", v |-> <<D_default>>] >>]

ConfigTexts ==
    {TextInvalid, TextEmpty, TextScalar, TextNoSystems, TextNone, TextThree, DefaultConfig}

\* config.yaml: there or not, with the rights of the user to read it and to
\* write (or create) it
MissingFile(w) == [exists |-> FALSE, readable |-> TRUE, writable |-> w, text |-> TextEmpty]

ConfigFiles ==
    {MissingFile(w) : w \in BOOLEAN} \cup
    {[exists |-> TRUE, readable |-> r, writable |-> w, text |-> t] :
        r \in BOOLEAN, w \in BOOLEAN, t \in ConfigTexts}

\* save_config inside create_default_config: open(file, "w") and dump
create_default_config(file) ==
    IF file.writable
    THEN [exc |-> FALSE, file |-> [file EXCEPT !.exists = TRUE, !.text = DefaultConfig]]
    ELSE [exc |-> TRUE, file |-> file]

\* yaml.safe_load(f) or {}   (line 108)
SafeLoadOrEmpty(text) == IF text.kind = "empty" THEN TextNoSystems ELSE text

\* load_config: the dict returned, the file left on disk, exc when the
\* exception handler of line 111 raises itself
load_config(file) ==
    LET created == IF ~file.exists THEN create_default_config(file)
                   ELSE [exc |-> FALSE, file |-> file]
        raised == created.exc \/ ~created.file.readable \/ created.file.text.kind = "invalid"
        again == create_default_config(created.file)
    IN  IF ~raised
        THEN [exc |-> FALSE, config |-> SafeLoadOrEmpty(created.file.text), file |-> created.file]
        ELSE [exc |-> again.exc, config |-> DefaultConfig, file |-> again.file]

\* os.path.join(path, f)
PathJoin(path, f) == path \o <<47>> \o f

\* lines 256-262: the files of one directory that do not start with "."
RomsOfDir(path) ==
    LET NotHidden(f) == f[1] # 46
        files == SelectSeq(ListDir(path), NotHidden)
    IN  [i \in 1..Len(files) |-> PathJoin(path, files[i])]

RECURSIVE RomsOfPaths(_)
\* lines 254-264
RomsOfPaths(paths) ==
    IF paths = <<>> THEN <<>>
    ELSE (IF IsDir(paths[1]) THEN RomsOfDir(paths[1]) ELSE <<>>) \o RomsOfPaths(Tail(paths))

\* self.config["systems"] of line 252 raises
GetRomsRaises(config) == config.kind # "mapping" \/ ~config.has_systems

get_roms(config) ==
    [i \in 1..Len(config.systems) |->
        [k |-> config.systems[i].k, v |-> RomsOfPaths(config.systems[i].v)]]

\* a readable, writable config.yaml that yields the catalog
ConfigFileOf(catalog) ==
    CHOOSE file \in ConfigFiles :
        /\ file.exists /\ file.readable /\ file.writable
        /\ file.text \in {TextNone, TextThree}
        /\ get_roms(file.text) = catalog

(* ----------------------------- controller ----------------------------- *)
\* times are counted in units of 20 ms
TimeUnitMs == 20

\* line 1012: 0.3 s
initial_delay == 300 \div TimeUnitMs

\* line 1013: 0.04 s
repeat_interval == 40 \div TimeUnitMs

\* time.time() when the launcher starts (any value but 0)
StartTime == 1

Dirs == {"up", "down", "left", "right"}

\* lines 87-90
NoTimes == [d \in Dirs |-> 0]

\* get_hat(0) gives (x, y) in -1..1; get_axis gives -1.0..1.0, here in tenths
PadNeutral == [hat |-> <<0, 0>>, axis |-> <<0, 0>>]

\* lines 1142, 1158, 1174, 1190: 0.5, in tenths
AxisThreshold == 5

PadHatDown == [hat |-> <<0, -1>>, axis |-> <<0, 0>>]

PadAxisDown == [hat |-> <<0, 0>>, axis |-> <<0, 10>>]

\* the hat to the right while the stick is held down
PadHatRightAxisDown == [hat |-> <<1, 0>>, axis |-> <<0, 10>>]

\* the stick half way down: 0.5 exactly
PadAxisHalfDown == [hat |-> <<0, 0>>, axis |-> <<0, 5>>]

PadReadings == {PadNeutral, PadHatDown, PadAxisDown, PadHatRightAxisDown, PadAxisHalfDown}

\* lines 1073, 1089, 1105, 1121
HatActive(reading, dir) ==
    CASE dir = "up" -> reading.hat[2] = 1
      [] dir = "down" -> reading.hat[2] = -1
      [] dir = "right" -> reading.hat[1] = 1
      [] dir = "left" -> reading.hat[1] = -1

\* lines 1142, 1158, 1174, 1190
AxisActive(reading, dir) ==
    CASE dir = "up" -> reading.axis[2] < -AxisThreshold
      [] dir = "down" -> reading.axis[2] > AxisThreshold
      [] dir = "left" -> reading.axis[1] < -AxisThreshold
      [] dir = "right" -> reading.axis[1] > AxisThreshold

HatDirs(reading) == {d \in Dirs : HatActive(reading, d)}

AxisDirs(reading) == {d \in Dirs : AxisActive(reading, d)}

NoHold == [src |-> "none", dir |-> "none", start |-> 0, n |-> 0]

\* the last instant of the clock that is explored
MaxNow == 24

\* keys, buttons and new presses on the controller arrive only before this
\* instant; what is held may be let go at any time
MaxKeyTime == 4

\* the keys typed while the loop iterations are counted
TickKeys == {-1, KEY_ENTER, KEY_RIGHT, KEY_Q}

\* what pygame.event.get() returns in one iteration
ButtonQueues == {<<>>, <<BUTTON_A>>, <<BUTTON_B>>, <<BUTTON_A, BUTTON_B>>}

\* sleep of 10 ms and the time the iteration itself takes: 20 ms or 40 ms
TickPeriods == {1, 2}

(* ------------------------------- state -------------------------------- *)
VARIABLES
    roms,               \* self.roms: dict system -> list of paths
    favorites,          \* self.favorites: dict system -> list of paths
    persisted,          \* content of favorites.yaml
    view_mode,          \* "systems" | "all" | "favorites"
    selected_system,    \* self.selected_system
    selected_rom,       \* self.selected_rom
    focus,              \* "systems" | "roms"
    mode,               \* "navigate" | "filter"
    filter_string,      \* self.filter_string
    filtered_roms,      \* self.filtered_roms
    emulator_process,   \* "None" | "running" | "exited" (handle whose poll() is not None)
    loop,               \* "init" | "running" | "exited" | "crashed"
    lastEvent,          \* history: the event handled by the last step
    launched,           \* history: the Popen calls of the last step
    togHist,            \* history: the last run of toggles of one pair
    run,                \* history: the current run of one arrow key
    prev,               \* history: mode and filter before the last step
    config_file,        \* config.yaml on disk
    controllers,        \* pygame.joystick.get_count()
    period,             \* duration of one iteration of the loop
    now,                \* time.time() as the loop last read it
    pad,                \* what get_hat and get_axis returned at the last poll
    first_hat_event,    \* self.first_hat_event
    last_hat_event,     \* self.last_hat_event
    first_axis_event,   \* self.first_axis_event
    last_axis_event,    \* self.last_axis_event
    fired,              \* history: the arrow events of the last poll
    hold,               \* history: the one direction held since a neutral poll
    last_selection_change_time, \* self.last_selection_change_time
    buttons             \* history: the button events of the last step

vars ==
    <<roms, favorites, persisted, view_mode, selected_system, selected_rom, focus,
      mode, filter_string, filtered_roms, emulator_process, loop, lastEvent,
      launched, togHist, run, prev, config_file, controllers, period, now, pad,
      first_hat_event, last_hat_event, first_axis_event, last_axis_event, fired, hold,
      last_selection_change_time, buttons>>

\* what the handlers of keys and buttons never touch
padVars ==
    <<config_file, controllers, period, pad, first_hat_event, last_hat_event,
      first_axis_event, last_axis_event, fired, hold>>

(* ----------------------------- catalog -------------------------------- *)
RECURSIVE FlattenDict(_)
\* [(system, rom) for system, l in d.items() for rom in l]
FlattenDict(d) ==
    IF d = <<>> THEN <<>>
    ELSE [i \in 1..Len(d[1].v) |-> <<d[1].k, d[1].v[i]>>] \o FlattenDict(Tail(d))

\* sort key of combine_all_roms
SortKey(pair) == lower(basename(pair[2]))

RECURSIVE StableSort(_)
\* sorted(l, key=SortKey): stable
StableSort(l) ==
    IF l = <<>> THEN <<>>
    ELSE LET front == StableSort(SubSeq(l, 1, Len(l) - 1))
             x == l[Len(l)]
             pos == Cardinality({i \in 1..Len(front) : ~StrLess(SortKey(x), SortKey(front[i]))})
         IN  SubSeq(front, 1, pos) \o <<x>> \o SubSeq(front, pos + 1, Len(front))

\* a catalog flattened and left in the order of the systems
combine_all_roms_Unsorted(r) == FlattenDict(r)

\* lines 278-284
combine_all_roms(r) == StableSort(FlattenDict(r))

all_roms == combine_all_roms(roms)

get_favorite_roms_with_system(favs) == FlattenDict(favs)

\* lines 701-704: some system's list of favorites holds the path
is_favorite(favs, rom_path) == \E i \in 1..Len(favs) : ListHas(favs[i].v, rom_path)

\* self.config["systems"].get(system) is truthy
HasConfig(system) == DictHas(roms, system)

(* --------------------------- filter engine ---------------------------- *)
FilterPaths(l, filter) ==
    LET Test(rom) == FilterMatches(filter, rom) IN SelectSeq(l, Test)

FilterPairs(l, filter) ==
    LET Test(pair) == FilterMatches(filter, pair[2]) IN SelectSeq(l, Test)

\* the dict update_filtered_roms stores in self.filtered_roms
FilteredRomsFor(view, favs, filter) ==
    IF filter = <<>>
    THEN CASE view = "systems" -> roms
           [] view = "all" -> << [k |-> "all", v |-> all_roms] >>
           [] view = "favorites" ->
                << [k |-> "favorites", v |-> get_favorite_roms_with_system(favs)] >>
    ELSE CASE view = "systems" ->
                [i \in 1..Len(roms) |-> [k |-> roms[i].k, v |-> FilterPaths(roms[i].v, filter)]]
           [] view = "all" -> << [k |-> "all", v |-> FilterPairs(all_roms, filter)] >>
           [] view = "favorites" ->
                << [k |-> "favorites",
                    v |-> FilterPairs(get_favorite_roms_with_system(favs), filter)] >>

\* a cache that is filled once and never derived again
update_filtered_roms_Once(s) ==
    IF s.filtered_roms # <<>> THEN s
    ELSE [s EXCEPT !.filtered_roms = FilteredRomsFor(s.view_mode, s.favorites, s.filter_string)]

update_filtered_roms(s) ==
    [s EXCEPT !.filtered_roms = FilteredRomsFor(s.view_mode, s.favorites, s.filter_string)]

\* the list the handlers read out of the cached dict for the current view
RomListOf(s) ==
    LET systems == DictKeys(roms)
    IN  IF s.view_mode = "systems"
        THEN IF systems # <<>> /\ InRange(systems, s.selected_system)
             THEN DictGet(s.filtered_roms, PyIndex(systems, s.selected_system), <<>>)
             ELSE <<>>
        ELSE DictGet(s.filtered_roms, s.view_mode, <<>>)

(* ----------------------------- favorites ------------------------------ *)
\* lines 626-635: the toggle written out in the "systems" branch of toggle_favorite
ToggleInSystemsView(favs, system, rom_path) ==
    LET f1 == IF DictHas(favs, system) THEN favs ELSE DictSet(favs, system, <<>>)
        l1 == DictGet(f1, system, <<>>)
        l2 == IF ListHas(l1, rom_path) THEN ListRemove(l1, rom_path) ELSE Append(l1, rom_path)
        f2 == DictSet(f1, system, l2)
    IN  IF l2 = <<>> THEN DictDel(f2, system) ELSE f2

\* a toggle that leaves the emptied list of a system in the dict
ToggleBySystemAndPath_NoPrune(favs, system, rom_path) ==
    LET f1 == IF DictHas(favs, system) THEN favs ELSE DictSet(favs, system, <<>>)
        l1 == DictGet(f1, system, <<>>)
    IN  IF ListHas(l1, rom_path)
        THEN DictSet(f1, system, ListRemove(l1, rom_path))
        ELSE DictSet(f1, system, Append(l1, rom_path))

\* a toggle that puts a new favorite first in its list
ToggleBySystemAndPath_Prepend(favs, system, rom_path) ==
    LET f1 == IF DictHas(favs, system) THEN favs ELSE DictSet(favs, system, <<>>)
        l1 == DictGet(f1, system, <<>>)
    IN  IF ListHas(l1, rom_path)
        THEN LET l2 == ListRemove(l1, rom_path)
             IN  IF l2 = <<>> THEN DictDel(f1, system) ELSE DictSet(f1, system, l2)
        ELSE DictSet(f1, system, <<rom_path>> \o l1)

\* a toggle that only ever adds
ToggleBySystemAndPath_AddOnly(favs, system, rom_path) ==
    LET f1 == IF DictHas(favs, system) THEN favs ELSE DictSet(favs, system, <<>>)
        l1 == DictGet(f1, system, <<>>)
    IN  IF ListHas(l1, rom_path) THEN favs
        ELSE DictSet(f1, system, Append(l1, rom_path))

\* lines 677-685: the dict toggle_favorite_by_system_and_path leaves in self.favorites
ToggleBySystemAndPath(favs, system, rom_path) ==
    LET f1 == IF DictHas(favs, system) THEN favs ELSE DictSet(favs, system, <<>>)
        l1 == DictGet(f1, system, <<>>)
    IN  IF ListHas(l1, rom_path)
        THEN LET l2 == ListRemove(l1, rom_path)
             IN  IF l2 = <<>> THEN DictDel(f1, system) ELSE DictSet(f1, system, l2)
        ELSE DictSet(f1, system, Append(l1, rom_path))

\* a toggle that leaves the file as it was
save_favorites_Skipped(s) == s

\* save_favorites: the file holds the whole dict
save_favorites(s) == [s EXCEPT !.persisted = s.favorites]

toggle_favorite_by_system_and_path(s, system, rom_path) ==
    update_filtered_roms(
        save_favorites([s EXCEPT !.favorites = ToggleBySystemAndPath(s.favorites, system, rom_path),
                                 !.toggled = Append(s.toggled, <<system, rom_path>>)]))

\* a restore that keeps the stored index whatever the new length
ClampIndex_Unclamped(current_rom_index, len) == current_rom_index

\* a restore that goes back to the top of the list
ClampIndex_Reset(current_rom_index, len) == 0

\* a restore that goes to the end of the list
ClampIndex_Last(current_rom_index, len) == Max(len - 1, 0)

\* lines 663-664
ClampIndex(current_rom_index, len) == Max(Min(current_rom_index, len - 1), 0)

Raise(s) == [s EXCEPT !.exc = TRUE]

toggle_favorite(s) ==
    LET current_rom_index == s.selected_rom
        systems == DictKeys(roms)
        \* lines 618-649
        s1 == IF s.view_mode = "systems"
              THEN IF systems # <<>>
                   THEN IF ~InRange(systems, s.selected_system) THEN Raise(s)
                        ELSE LET name == PyIndex(systems, s.selected_system)
                                 rom_list == DictGet(s.filtered_roms, name, <<>>)
                             IN  IF rom_list # <<>>
                                 THEN IF ~InRange(rom_list, current_rom_index) THEN Raise(s)
                                      ELSE LET path == PyIndex(rom_list, current_rom_index)
                                           IN  save_favorites(
                                                 [s EXCEPT !.favorites =
                                                              ToggleInSystemsView(s.favorites, name, path),
                                                           !.toggled = Append(s.toggled, <<name, path>>)])
                                 ELSE s
                   ELSE s
              ELSE LET rom_list == DictGet(s.filtered_roms, s.view_mode, <<>>)
                   IN  IF ~InRange(rom_list, current_rom_index) THEN Raise(s)
                       ELSE LET rom_data == PyIndex(rom_list, current_rom_index)
                            IN  toggle_favorite_by_system_and_path(s, rom_data[1], rom_data[2])
        \* line 651
        s2 == IF s1.exc THEN s1 ELSE update_filtered_roms(s1)
    IN  \* lines 655-664
        IF s2.exc THEN s2
        ELSE IF s2.view_mode = "systems" /\ ~InRange(systems, s2.selected_system) THEN Raise(s2)
        ELSE [s2 EXCEPT !.selected_rom = ClampIndex(current_rom_index, Len(RomListOf(s2)))]

(* ------------------------------ launching ----------------------------- *)
\* a launch that drops the handle Popen returns
launch_rom_NoHandle(s, system, rom_path, outcome) ==
    LET called == [s EXCEPT !.launched =
                       Append(s.launched, [system |-> system, rom_path |-> rom_path, result |-> outcome])]
    IN  IF outcome = "OSError" THEN Raise(called) ELSE called

\* launch_rom: one Popen call; only FileNotFoundError (and CalledProcessError,
\* which Popen never raises) is caught
launch_rom(s, system, rom_path, outcome) ==
    LET called == [s EXCEPT !.launched =
                       Append(s.launched, [system |-> system, rom_path |-> rom_path, result |-> outcome])]
    IN  CASE outcome = "ok" -> [called EXCEPT !.emulator_process = "running"]
          [] outcome = "FileNotFoundError" -> called
          [] outcome = "OSError" -> Raise(called)

\* a reset that keeps the filter text
AfterLaunch_KeepFilter(s) ==
    [update_filtered_roms([s EXCEPT !.mode = "navigate"]) EXCEPT !.selected_rom = 0]

\* lines 898-902
AfterLaunch(s) ==
    [update_filtered_roms([s EXCEPT !.mode = "navigate", !.filter_string = <<>>])
        EXCEPT !.selected_rom = 0]

\* a launch guard that forgets the running process
CanLaunch_IgnoringProcess(s, rom_list) == s.focus = "roms" /\ rom_list # <<>>

\* a launch guard that does not look at the focus
CanLaunch_AnyFocus(s, rom_list) == s.emulator_process = "None" /\ rom_list # <<>>

\* line 873
CanLaunch(s, rom_list) ==
    s.focus = "roms" /\ s.emulator_process = "None" /\ rom_list # <<>>

launch_selected_rom(s, systems, rom_list, outcome) ==
    IF CanLaunch(s, rom_list)
    THEN LET s1 == IF s.view_mode = "systems"
                   THEN LET name == PyIndex(systems, s.selected_system)
                        IN  IF HasConfig(name)
                            THEN launch_rom(s, name, PyIndex(rom_list, s.selected_rom), outcome)
                            ELSE s
                   ELSE LET rom_data == PyIndex(rom_list, s.selected_rom)
                        IN  IF HasConfig(rom_data[1])
                            THEN launch_rom(s, rom_data[1], rom_data[2], outcome)
                            ELSE s
         IN  IF s1.exc THEN s1 ELSE AfterLaunch(s1)
    ELSE s

(* ---------------------------- handle_input ---------------------------- *)
\* line 779
WrapUp(selected, num_roms) == (selected - 1) % num_roms

\* a step down that stops at the last entry
WrapDown_Clamped(selected, num_roms) == Min(selected + 1, num_roms - 1)

\* line 799
WrapDown(selected, num_roms) == (selected + 1) % num_roms

\* a ring that enters the system list at its first entry from above
LastSystemIndex_First(num_systems) == 0

\* line 783
LastSystemIndex(num_systems) == num_systems - 1

\* a step up the ring that leaves the item cursor where it was
SystemsUp_KeepsCursor(s, num_systems) ==
    IF s.view_mode = "favorites"
    THEN update_filtered_roms([s EXCEPT !.view_mode = "systems",
                                        !.selected_system = LastSystemIndex(num_systems)])
    ELSE IF s.view_mode = "all" /\ num_systems > 0
    THEN update_filtered_roms([s EXCEPT !.view_mode = "favorites"])
    ELSE IF s.view_mode = "systems" /\ s.selected_system = 0
    THEN update_filtered_roms([s EXCEPT !.view_mode = "all"])
    ELSE IF s.view_mode = "systems" /\ s.selected_system > 0
    THEN [s EXCEPT !.selected_system = s.selected_system - 1]
    ELSE s

\* lines 781-796: KEY_UP with the focus on the system column
SystemsUp(s, num_systems) ==
    IF s.view_mode = "favorites"
    THEN update_filtered_roms([s EXCEPT !.view_mode = "systems",
                                        !.selected_system = LastSystemIndex(num_systems),
                                        !.selected_rom = 0])
    ELSE IF s.view_mode = "all" /\ num_systems > 0
    THEN update_filtered_roms([s EXCEPT !.view_mode = "favorites", !.selected_rom = 0])
    ELSE IF s.view_mode = "systems" /\ s.selected_system = 0
    THEN update_filtered_roms([s EXCEPT !.view_mode = "all", !.selected_rom = 0])
    ELSE IF s.view_mode = "systems" /\ s.selected_system > 0
    THEN [s EXCEPT !.selected_system = s.selected_system - 1, !.selected_rom = 0]
    ELSE s

\* line 814
NextSystemIndex(selected) == selected + 1

\* lines 801-823: KEY_DOWN with the focus on the system column
SystemsDown(s, num_systems) ==
    IF s.view_mode = "favorites"
    THEN update_filtered_roms([s EXCEPT !.view_mode = "all", !.selected_rom = 0])
    ELSE IF s.view_mode = "all" /\ num_systems > 0
    THEN update_filtered_roms([s EXCEPT !.view_mode = "systems",
                                        !.selected_system = 0,
                                        !.selected_rom = 0])
    ELSE IF s.view_mode = "systems" /\ s.selected_system < num_systems - 1
    THEN update_filtered_roms([s EXCEPT !.selected_system = NextSystemIndex(s.selected_system),
                                        !.selected_rom = 0])
    ELSE IF s.view_mode = "systems" /\ s.selected_system = num_systems - 1
    THEN update_filtered_roms([s EXCEPT !.view_mode = "favorites", !.selected_rom = 0])
    ELSE s

\* a filter that takes letters only
IsPrintable_Letters(key) == key >= 65 /\ key <= 122

\* line 772
IsPrintable(key) == key >= 32 /\ key <= 126

\* a Backspace that clears the filter
DropLast_All(str) == <<>>

\* line 760: str[:-1]
DropLast(str) == SubSeq(str, 1, Len(str) - 1)

\* a step down in filter mode that goes round
FilterDown_Wrapping(selected, num_roms) ==
    IF num_roms = 0 THEN selected ELSE (selected + 1) % num_roms

\* lines 767-768
FilterDown(selected, num_roms) ==
    IF selected < num_roms - 1 THEN selected + 1 ELSE selected

\* a toggle key that is honoured whatever the focus
CanToggle_AnyFocus(s) == TRUE

\* lines 770, 836
CanToggle(s) == s.focus = "roms"

\* lines 750-775
HandleFilterMode(s, key, systems, rom_list, outcome) ==
    LET num_roms == Len(rom_list)
    IN  CASE key = KEY_ESCAPE ->
                [update_filtered_roms([s EXCEPT !.mode = "navigate", !.filter_string = <<>>])
                    EXCEPT !.selected_rom = 0]
          [] key = KEY_ENTER -> launch_selected_rom(s, systems, rom_list, outcome)
          [] key \in {KEY_BACKSPACE, KEY_DEL, KEY_BS} ->
                IF s.filter_string # <<>>
                THEN [update_filtered_roms([s EXCEPT !.filter_string = DropLast(s.filter_string)])
                        EXCEPT !.selected_rom = 0]
                ELSE s
          [] key = KEY_UP ->
                IF s.selected_rom > 0 THEN [s EXCEPT !.selected_rom = s.selected_rom - 1] ELSE s
          [] key = KEY_DOWN -> [s EXCEPT !.selected_rom = FilterDown(s.selected_rom, num_roms)]
          [] key = KEY_F2 -> IF CanToggle(s) THEN toggle_favorite(s) ELSE s
          [] IsPrintable(key) ->
                [update_filtered_roms([s EXCEPT !.filter_string = Append(s.filter_string, key)])
                    EXCEPT !.selected_rom = 0]
          [] OTHER -> s

\* lines 776-837
HandleNavigateMode(s, key, systems, rom_list, outcome) ==
    LET num_roms == Len(rom_list)
        num_systems == Len(systems)
    IN  CASE key = KEY_UP ->
                IF s.focus = "roms" /\ num_roms > 0
                THEN [s EXCEPT !.selected_rom = WrapUp(s.selected_rom, num_roms)]
                ELSE IF s.focus = "systems" THEN SystemsUp(s, num_systems)
                ELSE s
          [] key = KEY_DOWN ->
                IF s.focus = "roms" /\ num_roms > 0
                THEN [s EXCEPT !.selected_rom = WrapDown(s.selected_rom, num_roms)]
                ELSE IF s.focus = "systems" THEN SystemsDown(s, num_systems)
                ELSE s
          [] key = KEY_LEFT -> [s EXCEPT !.focus = "systems"]
          [] key = KEY_RIGHT -> [s EXCEPT !.focus = "roms"]
          [] key = KEY_SLASH ->
                [update_filtered_roms([s EXCEPT !.mode = "filter", !.filter_string = <<>>])
                    EXCEPT !.selected_rom = 0]
          [] key = KEY_ENTER -> launch_selected_rom(s, systems, rom_list, outcome)
          [] key = KEY_F2 -> IF CanToggle(s) THEN toggle_favorite(s) ELSE s
          [] OTHER -> s

\* a filter mode in which the arrow keys act as in navigate mode
Dispatch_ArrowsNavigate(s, key, outcome) ==
    LET systems == DictKeys(roms)
        rom_list == RomListOf(s)
    IN  IF s.mode = "filter" /\ key \notin {KEY_UP, KEY_DOWN, KEY_LEFT, KEY_RIGHT}
        THEN HandleFilterMode(s, key, systems, rom_list, outcome)
        ELSE HandleNavigateMode(s, key, systems, rom_list, outcome)

\* lines 736-837
Dispatch(s, key, outcome) ==
    LET systems == DictKeys(roms)
        rom_list == RomListOf(s)
    IN  IF s.mode = "filter"
        THEN HandleFilterMode(s, key, systems, rom_list, outcome)
        ELSE HandleNavigateMode(s, key, systems, rom_list, outcome)

\* lines 841-843: the handler that led from s to t changed the selection
SelectionChanged(s, t) ==
    \/ s.selected_rom # t.selected_rom
    \/ s.view_mode # t.view_mode
    \/ s.selected_system # t.selected_system

\* a handler that stamps every event
StampSelection_Always(s, t) ==
    IF t.exc THEN t ELSE [t EXCEPT !.last_selection_change_time = s.clock]

\* lines 732-734, 840-845: time.time() is s.clock
StampSelection(s, t) ==
    IF t.exc THEN t
    ELSE IF SelectionChanged(s, t) THEN [t EXCEPT !.last_selection_change_time = s.clock]
    ELSE t

\* the redraws of lines 847-849 change no state
handle_input(s, key, outcome) == StampSelection(s, Dispatch(s, key, outcome))

(* ------------------------------ histories ----------------------------- *)
NoToggle == [pair |-> <<>>, n |-> 0, before |-> <<>>]

NoRun == [kind |-> "none", n |-> 0, start |-> 0]

\* what the step now taken starts from
Before ==
    [mode |-> mode, filtered |-> filter_string # <<>>, selected_rom |-> selected_rom,
     emulator_process |-> emulator_process]

\* getch returns -1 when no key is pending (line 1031)
NoKey == -1

\* the state of the launcher as a record; launched and toggled collect what
\* the current handler does, exc tells that it raised
CurAt(instant) ==
    [view_mode |-> view_mode, selected_system |-> selected_system,
     selected_rom |-> selected_rom, focus |-> focus, mode |-> mode,
     filter_string |-> filter_string, filtered_roms |-> filtered_roms,
     favorites |-> favorites, persisted |-> persisted,
     emulator_process |-> emulator_process,
     last_selection_change_time |-> last_selection_change_time, clock |-> instant,
     launched |-> <<>>, toggled |-> <<>>, exc |-> FALSE]

\* the same where time is left out of account: every event is taken at the
\* one instant now
Cur == CurAt(now)

\* consecutive toggles of one pair: how many, and the dict before the first
NextTogHist(s, t) ==
    IF t.toggled = <<>> THEN NoToggle
    ELSE LET p == t.toggled[1]
         IN  IF togHist.n = 1 /\ togHist.pair = p
             THEN [togHist EXCEPT !.n = 2]
             ELSE [pair |-> p, n |-> 1, before |-> s.favorites]

\* consecutive presses of one arrow key in navigate mode: in the item column
\* since index start, in the system column since ("systems", 0)
NextRun(s, t, key) ==
    LET num_roms == Len(RomListOf(s))
        num_systems == Len(roms)
        kind == IF key = KEY_UP THEN "ringUp" ELSE "ringDown"
    IN  IF t.exc \/ s.mode # "navigate" \/ key \notin {KEY_UP, KEY_DOWN} THEN NoRun
        ELSE IF s.focus = "roms"
        THEN IF key = KEY_DOWN /\ num_roms > 0
             THEN IF run.kind = "itemDown" /\ run.n < num_roms
                  THEN [run EXCEPT !.n = run.n + 1]
                  ELSE [kind |-> "itemDown", n |-> 1, start |-> s.selected_rom]
             ELSE NoRun
        ELSE IF num_systems = 0 THEN NoRun
        ELSE IF run.kind = kind /\ run.n < num_systems + 2
        THEN [run EXCEPT !.n = run.n + 1]
        ELSE IF s.view_mode = "systems" /\ s.selected_system = 0
        THEN [kind |-> kind, n |-> 1, start |-> 0]
        ELSE NoRun

\* the launcher takes the state t the handler of key left, from state s
CommitAt(s, t, key, instant) ==
    /\ now' = instant
    /\ last_selection_change_time' = t.last_selection_change_time
    /\ view_mode' = t.view_mode
    /\ selected_system' = t.selected_system
    /\ selected_rom' = t.selected_rom
    /\ focus' = t.focus
    /\ mode' = t.mode
    /\ filter_string' = t.filter_string
    /\ filtered_roms' = t.filtered_roms
    /\ favorites' = t.favorites
    /\ persisted' = t.persisted
    /\ emulator_process' = t.emulator_process
    /\ launched' = t.launched
    /\ loop' = IF t.exc THEN "crashed" ELSE "running"
    /\ lastEvent' = key
    /\ togHist' = NextTogHist(s, t)
    /\ run' = NextRun(s, t, key)
    /\ prev' = Before
    /\ UNCHANGED roms
    /\ UNCHANGED padVars

Commit(s, t, key) == CommitAt(s, t, key, now)

(* ------------------------------- actions ------------------------------ *)
\* lines 86-90, and main before its loop
InitPad ==
    /\ now = StartTime
    /\ last_selection_change_time = 0
    /\ buttons = <<>>
    /\ pad = PadNeutral
    /\ first_hat_event = NoTimes
    /\ last_hat_event = NoTimes
    /\ first_axis_event = NoTimes
    /\ last_axis_event = NoTimes
    /\ fired = <<>>
    /\ hold = NoHold

\* __init__ (lines 68-90)
Init ==
    /\ \E session \in Sessions :
          /\ roms = session[1]
          /\ favorites = session[2]
          /\ persisted = session[2]
          /\ config_file = ConfigFileOf(session[1])
    /\ controllers = 1
    /\ period = 1
    /\ InitPad
    /\ selected_system = 0
    /\ selected_rom = 0
    /\ emulator_process = "None"
    /\ focus = "systems"
    /\ filter_string = <<>>
    /\ filtered_roms = <<>>
    /\ mode = "navigate"
    /\ view_mode = IF favorites # <<>> THEN "favorites" ELSE "systems"
    /\ loop = "init"
    /\ lastEvent = NoKey
    /\ launched = <<>>
    /\ togHist = NoToggle
    /\ run = NoRun
    /\ prev = Before

\* main, lines 1004-1019: up to the first iteration of the loop
MainSetup ==
    /\ loop = "init"
    /\ buttons' = <<>>
    /\ Commit(Cur, update_filtered_roms([Cur EXCEPT !.mode = "navigate"]), NoKey)

\* lines 1054, 1063: the loop is left at the instant given, on key or on a button
QuitAt(key, instant) ==
    /\ loop' = "exited"
    /\ now' = instant
    /\ lastEvent' = key
    /\ launched' = <<>>
    /\ togHist' = NoToggle
    /\ run' = NoRun
    /\ prev' = Before
    /\ UNCHANGED <<roms, favorites, persisted, view_mode, selected_system,
                   selected_rom, focus, mode, filter_string, filtered_roms,
                   emulator_process, last_selection_change_time>>
    /\ UNCHANGED padVars

\* lines 1030-1055: one key read by getch, handled at the instant given
KeyboardEventAt(instant) ==
    /\ loop = "running"
    /\ buttons' = <<>>
    /\ \E key \in Keys : \E outcome \in OutcomesOf(key) :
          \* bound of the model: no more than MaxFilterLen characters are typed
          /\ (mode = "filter" /\ key \in PrintableKeys) => Len(filter_string) < MaxFilterLen
          /\ IF key = KEY_Q /\ emulator_process = "None" /\ mode = "navigate"
             THEN QuitAt(key, instant)
             ELSE CommitAt(CurAt(instant),
                           handle_input(IF key = KEY_RESIZE
                                        THEN update_filtered_roms(CurAt(instant))
                                        ELSE CurAt(instant),
                                        key, outcome),
                           key, instant)

KeyboardEvent == KeyboardEventAt(now)

\* lines 1058-1065: one JOYBUTTONDOWN event
ButtonEvent ==
    /\ loop = "running"
    /\ \E button \in Buttons : \E outcome \in OutcomesOf(IF button = BUTTON_A THEN KEY_ENTER ELSE KEY_F2) :
          /\ buttons' = <<button>>
          /\ CASE button = BUTTON_A -> Commit(Cur, handle_input(Cur, KEY_ENTER, outcome), KEY_ENTER)
               [] button = BUTTON_X -> Commit(Cur, handle_input(Cur, KEY_F2, outcome), KEY_F2)
               [] button = BUTTON_B -> QuitAt(NoKey, now)
               [] OTHER -> Commit(Cur, Cur, NoKey)

\* the emulator terminates: poll() of the handle stops returning None
ProcessExits ==
    /\ loop = "running"
    /\ emulator_process = "running"
    /\ buttons' = <<>>
    /\ Commit(Cur, [Cur EXCEPT !.emulator_process = "exited"], NoKey)

\* lines 1206-1207
PollProcess ==
    /\ loop = "running"
    /\ emulator_process = "exited"
    /\ buttons' = <<>>
    /\ Commit(Cur, [Cur EXCEPT !.emulator_process = "None"], NoKey)

Next == MainSetup \/ KeyboardEvent \/ ButtonEvent \/ ProcessExits \/ PollProcess

Spec == Init /\ [][Next]_vars

(* --------------------------- loop iteration --------------------------- *)
\* the state an iteration of the loop works on: that of the launcher, the
\* timers, the arrow events fired so far and how the loop is left
TickCur ==
    [view_mode |-> view_mode, selected_system |-> selected_system,
     selected_rom |-> selected_rom, focus |-> focus, mode |-> mode,
     filter_string |-> filter_string, filtered_roms |-> filtered_roms,
     favorites |-> favorites, persisted |-> persisted,
     emulator_process |-> emulator_process,
     last_selection_change_time |-> last_selection_change_time, clock |-> now + period,
     launched |-> <<>>, toggled |-> <<>>, exc |-> FALSE,
     first_hat_event |-> first_hat_event, last_hat_event |-> last_hat_event,
     first_axis_event |-> first_axis_event, last_axis_event |-> last_axis_event,
     fired |-> <<>>, quit |-> "no"]

\* an exception or the break of line 1054 ends the iteration
Stopped(s) == s.exc \/ s.quit = "break"

\* lines 1030-1055
KeyboardPhase(s, key, outcome) ==
    IF key = NoKey THEN s
    ELSE IF key = KEY_Q /\ s.emulator_process = "None" /\ s.mode = "navigate"
    THEN [s EXCEPT !.quit = "break"]
    ELSE handle_input(IF key = KEY_RESIZE THEN update_filtered_roms(s) ELSE s, key, outcome)

\* lines 1060, 1064: the key a button stands for
ButtonKey(button) == IF button = BUTTON_A THEN KEY_ENTER ELSE KEY_F2

\* lines 1059-1065
ButtonStep(s, button, outcome) ==
    IF s.exc THEN s
    ELSE IF button = BUTTON_B THEN [s EXCEPT !.quit = "flag"]
    ELSE IF button \in {BUTTON_A, BUTTON_X} THEN handle_input(s, ButtonKey(button), outcome)
    ELSE s

Fire(s, src, key) == [s EXCEPT !.fired = Append(s.fired, [src |-> src, key |-> key])]

\* a repeat that does not wait for the initial delay
RepeatDue_NoDelay(t, first, last) == t - last >= repeat_interval

\* lines 1079-1080
RepeatDue(t, first, last) == t - first >= initial_delay /\ t - last >= repeat_interval

\* lines 1073, 1078-1081: an event of an active direction is due
EventDue(t, first, last) == first = 0 \/ RepeatDue(t, first, last)

\* lines 1076-1077, 1083: the event is timed, a first event as the first
HatTimed(h, dir, t, isFirst) ==
    IF h.exc THEN h
    ELSE [h EXCEPT !.first_hat_event[dir] = IF isFirst THEN t ELSE @,
                   !.last_hat_event[dir] = t]

\* lines 1073-1086, and the same for the other directions of the hat
HatStep(s, dir, key, active, t) ==
    IF s.exc THEN s
    ELSE IF ~active
    THEN [s EXCEPT !.first_hat_event[dir] = 0, !.last_hat_event[dir] = 0]
    ELSE IF EventDue(t, s.first_hat_event[dir], s.last_hat_event[dir])
    THEN HatTimed(handle_input(Fire(s, "hat", key), key, "ok"),
                  dir, t, s.first_hat_event[dir] = 0)
    ELSE s

\* lines 1145-1146, 1152: the event is timed, a first event as the first
AxisTimed(h, dir, t, isFirst) ==
    IF h.exc THEN h
    ELSE [h EXCEPT !.first_axis_event[dir] = IF isFirst THEN t ELSE @,
                   !.last_axis_event[dir] = t]

\* lines 1142-1155, and the same for the other directions of the stick
AxisStep(s, dir, key, active, t) ==
    IF s.exc THEN s
    ELSE IF ~active
    THEN [s EXCEPT !.first_axis_event[dir] = 0, !.last_axis_event[dir] = 0]
    ELSE IF EventDue(t, s.first_axis_event[dir], s.last_axis_event[dir])
    THEN AxisTimed(handle_input(Fire(s, "axis", key), key, "ok"),
                   dir, t, s.first_axis_event[dir] = 0)
    ELSE s

\* the key an arrow direction stands for
DirKey(dir) ==
    CASE dir = "up" -> KEY_UP
      [] dir = "down" -> KEY_DOWN
      [] dir = "left" -> KEY_LEFT
      [] dir = "right" -> KEY_RIGHT

\* lines 1073, 1089, 1105, 1121: the order the hat's directions are looked at
HatOrder == <<"up", "down", "right", "left">>

\* lines 1142, 1158, 1174, 1190: the order the stick's directions are looked at
AxisOrder == <<"up", "down", "left", "right">>

RECURSIVE HatPhase(_, _, _, _)
\* lines 1073-1134: the directions of the hat in turn
HatPhase(s, reading, t, order) ==
    IF order = <<>> THEN s
    ELSE HatPhase(HatStep(s, Head(order), DirKey(Head(order)),
                          HatActive(reading, Head(order)), t),
                  reading, t, Tail(order))

RECURSIVE AxisPhase_IgnoringHat(_, _, _, _)
\* a stick that is read whatever the hat
AxisPhase_IgnoringHat(s, reading, t, order) ==
    IF order = <<>> THEN s
    ELSE AxisPhase_IgnoringHat(AxisStep(s, Head(order), DirKey(Head(order)),
                                        AxisActive(reading, Head(order)), t),
                               reading, t, Tail(order))

RECURSIVE AxisPhase(_, _, _, _)
\* lines 1137-1203: the hat neutral, the directions of the stick in turn
AxisPhase(s, reading, t, order) ==
    IF reading.hat # <<0, 0>> \/ order = <<>> THEN s
    ELSE AxisPhase(AxisStep(s, Head(order), DirKey(Head(order)),
                            AxisActive(reading, Head(order)), t),
                   reading, t, Tail(order))

\* lines 1068-1203: the hat, then the stick
PadPhase(s, reading, t) ==
    IF Stopped(s) \/ controllers = 0 THEN s
    ELSE AxisPhase(HatPhase(s, reading, t, HatOrder), reading, t, AxisOrder)

\* a loop that never looks at the process again
PollPhase_Never(s) == s

\* lines 1206-1207, reached unless the iteration was ended before
PollPhase(s) ==
    IF ~Stopped(s) /\ s.emulator_process = "exited"
    THEN [s EXCEPT !.emulator_process = "None"]
    ELSE s

RECURSIVE ButtonsPhase(_, _, _)
\* line 1058: every pending event in turn, unless the keyboard ended the loop
ButtonsPhase(s, queue, outcome) ==
    IF Stopped(s) \/ queue = <<>> THEN s
    ELSE ButtonsPhase(ButtonStep(s, Head(queue), outcome), Tail(queue), outcome)

\* an iteration that looks at the hat and the stick first
Iteration_PadFirst(s, key, queue, reading, outcome, t) ==
    PollPhase(ButtonsPhase(KeyboardPhase(PadPhase(s, reading, t), key, outcome),
                           queue, outcome))

\* lines 1022-1207: the keyboard, the buttons, the hat and the stick, the poll
Iteration(s, key, queue, reading, outcome, t) ==
    PollPhase(PadPhase(ButtonsPhase(KeyboardPhase(s, key, outcome), queue, outcome),
                       reading, t))

\* the direction of a reading that has one direction active on one source
\* and the other source neutral
Solo(reading) ==
    LET h == HatDirs(reading)
        a == AxisDirs(reading)
    IN  IF Cardinality(h) = 1 /\ a = {}
        THEN [src |-> "hat", dir |-> CHOOSE d \in h : TRUE]
        ELSE IF h = {} /\ Cardinality(a) = 1
        THEN [src |-> "axis", dir |-> CHOOSE d \in a : TRUE]
        ELSE [src |-> "none", dir |-> "none"]

\* one direction read at every poll since a poll that read nothing: when it
\* was first read and how many arrow events it has fired
NextHold(reading, s, t) ==
    LET solo == Solo(reading)
    IN  IF Stopped(s) \/ controllers = 0 \/ solo.src = "none" THEN NoHold
        ELSE IF hold.src = solo.src /\ hold.dir = solo.dir
        THEN [hold EXCEPT !.n = hold.n + Len(s.fired)]
        ELSE IF HatDirs(pad) = {} /\ AxisDirs(pad) = {}
        THEN [src |-> solo.src, dir |-> solo.dir, start |-> t, n |-> Len(s.fired)]
        ELSE NoHold

\* the process before the launcher is constructed, with a controller or not
TickSessions == { <<CatThree, FavGB>> }

TickInit ==
    /\ \E session \in TickSessions :
          /\ roms = session[1]
          /\ favorites = session[2]
          /\ persisted = session[2]
          /\ config_file = ConfigFileOf(session[1])
    /\ controllers \in {0, 1}
    /\ period \in TickPeriods
    /\ InitPad
    /\ selected_system = 0
    /\ selected_rom = 0
    /\ emulator_process = "None"
    /\ focus = "systems"
    /\ filter_string = <<>>
    /\ filtered_roms = <<>>
    /\ mode = "navigate"
    /\ view_mode = IF favorites # <<>> THEN "favorites" ELSE "systems"
    /\ loop = "init"
    /\ lastEvent = NoKey
    /\ launched = <<>>
    /\ togHist = NoToggle
    /\ run = NoRun
    /\ prev = Before

\* the launcher takes the state s an iteration left at the instant t, and
\* sleeps
TickCommit(s, key, reading, exits, t) ==
    /\ exits => (~Stopped(s) /\ s.emulator_process = "running")
    /\ view_mode' = s.view_mode
    /\ selected_system' = s.selected_system
    /\ selected_rom' = s.selected_rom
    /\ focus' = s.focus
    /\ mode' = s.mode
    /\ filter_string' = s.filter_string
    /\ filtered_roms' = s.filtered_roms
    /\ favorites' = s.favorites
    /\ persisted' = s.persisted
    /\ emulator_process' = IF exits THEN "exited" ELSE s.emulator_process
    /\ first_hat_event' = s.first_hat_event
    /\ last_hat_event' = s.last_hat_event
    /\ first_axis_event' = s.first_axis_event
    /\ last_axis_event' = s.last_axis_event
    /\ fired' = s.fired
    /\ last_selection_change_time' = s.last_selection_change_time
    /\ launched' = s.launched
    /\ loop' = IF s.exc THEN "crashed"
               ELSE IF s.quit # "no" THEN "exited" ELSE "running"
    /\ now' = t
    /\ pad' = IF Stopped(s) \/ controllers = 0 THEN pad ELSE reading
    /\ hold' = NextHold(reading, s, t)
    /\ lastEvent' = key
    /\ togHist' = NoToggle
    /\ run' = NoRun
    /\ prev' = Before
    /\ UNCHANGED <<roms, config_file, controllers, period>>

\* from one reading to the next nothing is pressed that was not held
OnlyLetsGo(before, reading) ==
    /\ HatDirs(reading) \subseteq HatDirs(before)
    /\ AxisDirs(reading) \subseteq AxisDirs(before)

\* lines 1021-1209: one iteration of the loop, at the instant now + period,
\* and the sleep after it, in which the emulator may terminate
Tick ==
    /\ loop = "running"
    /\ now + period <= MaxNow
    /\ \E key \in TickKeys : \E queue \in ButtonQueues : \E reading \in PadReadings :
       \E outcome \in OutcomesOf(IF key = KEY_ENTER \/ queue # <<>> THEN KEY_ENTER ELSE NoKey) :
          /\ (key # NoKey \/ queue # <<>>) => now < MaxKeyTime
          /\ ~OnlyLetsGo(pad, reading) => now < MaxKeyTime
          /\ controllers = 0 => reading = PadNeutral
          /\ buttons' = queue
          /\ \E exits \in BOOLEAN :
                TickCommit(Iteration(TickCur, key, queue, reading, outcome, now + period),
                           key, reading, exits, now + period)

TickNext == MainSetup \/ Tick

TickSpec == TickInit /\ [][TickNext]_vars

(* ------------------------------ startup ------------------------------- *)
\* favorites.yaml as the launcher may find it
StartFavorites == {FavNone, FavGB, FavFive}

\* load_favorites of a file that holds a dict: yaml.safe_load(f) or {}
load_favorites(file) == file

\* the process before EmulatorLauncher() is called
StartInit ==
    /\ config_file \in ConfigFiles
    /\ persisted \in StartFavorites
    /\ roms = <<>>
    /\ favorites = <<>>
    /\ view_mode = "systems"
    /\ selected_system = 0
    /\ selected_rom = 0
    /\ emulator_process = "None"
    /\ focus = "systems"
    /\ filter_string = <<>>
    /\ filtered_roms = <<>>
    /\ mode = "navigate"
    /\ loop = "start"
    /\ lastEvent = NoKey
    /\ launched = <<>>
    /\ togHist = NoToggle
    /\ run = NoRun
    /\ prev = Before
    /\ controllers = 1
    /\ period = 1
    /\ InitPad

\* __init__ (lines 59-90): load_config, load_favorites, get_roms; an
\* exception of load_config or get_roms ends the process
Construct ==
    /\ loop = "start"
    /\ LET loaded == load_config(config_file)
       IN  /\ config_file' = loaded.file
           /\ IF loaded.exc \/ GetRomsRaises(loaded.config)
              THEN /\ loop' = "crashed"
                   /\ UNCHANGED <<roms, favorites, view_mode>>
              ELSE /\ roms' = get_roms(loaded.config)
                   /\ favorites' = load_favorites(persisted)
                   /\ view_mode' = IF load_favorites(persisted) # <<>> THEN "favorites"
                                   ELSE "systems"
                   /\ loop' = "init"
    /\ UNCHANGED <<persisted, selected_system, selected_rom, focus, mode, filter_string,
                   filtered_roms, emulator_process, lastEvent, launched, togHist, run, prev,
                   controllers, period, now, pad, first_hat_event, last_hat_event,
                   first_axis_event, last_axis_event, fired, hold,
                   last_selection_change_time, buttons>>

StartNext == Construct \/ MainSetup

StartSpec == StartInit /\ [][StartNext]_vars

(* ======================================================================= *)
(*                               properties                                *)
(* ======================================================================= *)
\* FilterEngine: the visible list of the current view, derived afresh
VisibleListOf(view, system, favs, filter) ==
    RomListOf([view_mode |-> view, selected_system |-> system,
               filtered_roms |-> FilteredRomsFor(view, favs, filter)])

VisibleList == VisibleListOf(view_mode, selected_system, favorites, filter_string)

\* the same list in the state a step leads to
VisibleListNext == VisibleListOf(view_mode', selected_system', favorites', filter_string')

\* the (system, path) pairs of a favorites dict
FavPairs(favs) == {FlattenDict(favs)[i] : i \in 1..Len(FlattenDict(favs))}

IsFavorite(favs, pair) == pair \in FavPairs(favs)

\* the list the launcher shows and acts on: read out of self.filtered_roms
ShownList ==
    RomListOf([view_mode |-> view_mode, selected_system |-> selected_system,
               filtered_roms |-> filtered_roms])

\* the same list in the state a step leads to
ShownListNext ==
    RomListOf([view_mode |-> view_mode', selected_system |-> selected_system',
               filtered_roms |-> filtered_roms'])

\* the unfiltered list of the view a step leads to
UnfilteredListNext == VisibleListOf(view_mode', selected_system', favorites', <<>>)

\* the (system, path) under the cursor
SelectedPair ==
    IF view_mode = "systems"
    THEN <<PyIndex(DictKeys(roms), selected_system), PyIndex(VisibleList, selected_rom)>>
    ELSE PyIndex(VisibleList, selected_rom)

\* Enter is handled with everything line 873 asks for
EnterOnItem ==
    /\ lastEvent' = KEY_ENTER
    /\ focus = "roms"
    /\ emulator_process = "None"
    /\ VisibleList # <<>>

\* C1: in every reachable state selected_rom is a valid index of the visible
\* list of the current view (0 <= index < len) when that list is non-empty,
\* and 0 when it is empty.
C1_CursorInBounds ==
    IF VisibleList = <<>>
    THEN selected_rom = 0
    ELSE selected_rom >= 0 /\ selected_rom < Len(VisibleList)

\* C1 witness: a favorite was removed in Favorites view and the cursor sits
\* on the last entry of the list that is left
C1_Witness ==
    /\ lastEvent = KEY_F2
    /\ view_mode = "favorites"
    /\ togHist.n = 1
    /\ IsFavorite(togHist.before, togHist.pair)
    /\ Len(VisibleList) >= 2
    /\ selected_rom = Len(VisibleList) - 1

\* C2: an Enter event (keyboard Enter or button A) that arrives while an
\* emulator process is tracked starts no process and changes no navigation
\* state.
C2_EnterWhileRunningIsNoOp ==
    [][(lastEvent' = KEY_ENTER /\ emulator_process # "None") =>
          /\ launched' = <<>>
          /\ emulator_process' = emulator_process
          /\ UNCHANGED <<mode, filter_string, selected_rom, view_mode, selected_system,
                         focus, filtered_roms, favorites>>]_vars

\* C2 witness: Enter was handled with the focus on a non-empty item list
\* while the process was running, and nothing was started
C2_Witness ==
    /\ lastEvent = KEY_ENTER
    /\ emulator_process = "running"
    /\ launched = <<>>
    /\ focus = "roms"
    /\ VisibleList # <<>>
    /\ mode = "filter"

\* C3: a system key is in the favorites dict only with at least one
\* favorited path (no key is mapped to an empty list), and no key is listed
\* twice.
C3_NoEmptyFavoriteList ==
    /\ \A i \in 1..Len(favorites) : favorites[i].v # <<>>
    /\ \A i, j \in 1..Len(favorites) : favorites[i].k = favorites[j].k => i = j

\* C3 witness: the last favorite of a system was removed and the key is gone
C3_Witness ==
    /\ togHist.n = 1
    /\ view_mode = "all"
    /\ DictHas(togHist.before, togHist.pair[1])
    /\ ~DictHas(favorites, togHist.pair[1])
    /\ favorites # <<>>

\* C4 as stated: two toggles of one pair in succession restore the dict
\* exactly.
C4_Original == togHist.n = 2 => favorites = togHist.before

\* the dict without one pair (an emptied list goes with its key)
WithoutPair(favs, pair) ==
    LET Keep(rom) == rom # pair[2]
        Rest(e) == IF e.k = pair[1] THEN [k |-> e.k, v |-> SelectSeq(e.v, Keep)] ELSE e
        NonEmpty(e) == e.v # <<>>
    IN  SelectSeq([i \in 1..Len(favs) |-> Rest(favs[i])], NonEmpty)

\* C4 amended: two toggles of one pair in succession restore the set of
\* favorited pairs and the order of all other favorites; the dict is restored
\* exactly when the pair was not a favorite before, and otherwise the pair
\* ends up last in the list of its system.
C4_TwoTogglesRestoreMembership ==
    togHist.n = 2 =>
       /\ FavPairs(favorites) = FavPairs(togHist.before)
       /\ WithoutPair(favorites, togHist.pair) = WithoutPair(togHist.before, togHist.pair)
       /\ ~IsFavorite(togHist.before, togHist.pair) => favorites = togHist.before
       /\ IsFavorite(togHist.before, togHist.pair) =>
             LET l == DictGet(favorites, togHist.pair[1], <<>>)
             IN  l # <<>> /\ l[Len(l)] = togHist.pair[2]

\* C4 witness: a favorite that was not last in its list was toggled twice
C4_Witness ==
    /\ togHist.n = 2
    /\ IsFavorite(togHist.before, togHist.pair)
    /\ favorites # togHist.before

\* C5: a toggle_favorite that returns leaves selected_rom at
\* max(0, min(previous index, new length - 1)), the new length being that of
\* the visible list derived after the mutation.
C5_ToggleClampsCursor ==
    [][(lastEvent' = KEY_F2 /\ focus = "roms" /\ loop' = "running") =>
          selected_rom' = Max(0, Min(selected_rom, Len(VisibleListNext) - 1))]_vars

\* C5 witness: five favorites, the one at index 4 was removed, the cursor is at 3
C5_Witness ==
    /\ lastEvent = KEY_F2
    /\ view_mode = "favorites"
    /\ filter_string = <<>>
    /\ togHist.n = 1
    /\ togHist.before = FavFive
    /\ togHist.pair = <<"PSX", P_p_qQ>>
    /\ Len(VisibleList) = 4
    /\ selected_rom = 3

\* C6: in navigate mode with the focus on a non-empty item list of length
\* N, KEY_DOWN moves selected_rom to (index + 1) mod N and KEY_UP to
\* (index - 1) mod N, neither changes view_mode or selected_system, and N
\* presses of KEY_DOWN in a row bring selected_rom back to where it started.
C6_ItemWrapAround ==
    /\ [](run.kind = "itemDown" /\ run.n = Len(VisibleList) => selected_rom = run.start)
    /\ [][(mode = "navigate" /\ focus = "roms" /\ Len(VisibleList) > 0
           /\ lastEvent' \in {KEY_UP, KEY_DOWN}) =>
             /\ lastEvent' = KEY_DOWN =>
                   selected_rom' = IF selected_rom = Len(VisibleList) - 1 THEN 0
                                   ELSE selected_rom + 1
             /\ lastEvent' = KEY_UP =>
                   selected_rom' = IF selected_rom = 0 THEN Len(VisibleList) - 1
                                   ELSE selected_rom - 1
             /\ UNCHANGED <<view_mode, selected_system>>]_vars

\* C6 witness: KEY_DOWN was pressed five times in a row on a list of five
\* entries, starting in the middle of the list
C6_Witness ==
    /\ run.kind = "itemDown"
    /\ Len(VisibleList) = 5
    /\ run.n = 5
    /\ run.start = 2
    /\ selected_rom = 2

\* the place of the ring the launcher is at
RingPosition == IF view_mode = "systems" THEN <<"systems", selected_system>> ELSE <<view_mode, 0>>

\* the place after n presses of KEY_UP from ("systems", 0) with M systems
RingAfterUps(n, M) ==
    IF n = 1 THEN <<"all", 0>>
    ELSE IF n = 2 THEN <<"favorites", 0>>
    ELSE <<"systems", M + 2 - n>>

\* the place after n presses of KEY_DOWN from ("systems", 0) with M systems
RingAfterDowns(n, M) ==
    IF n <= M - 1 THEN <<"systems", n>>
    ELSE IF n = M THEN <<"favorites", 0>>
    ELSE IF n = M + 1 THEN <<"all", 0>>
    ELSE <<"systems", 0>>

\* C7: with M >= 1 systems, navigate mode and the focus on the system column,
\* n presses of KEY_UP (of KEY_DOWN) in a row from ("systems", 0) lead through
\* All, Favorites and the M systems, each once, and the (M+2)-th press is back
\* at ("systems", 0).
C7_ViewRingClosure ==
    /\ run.kind = "ringUp" => RingPosition = RingAfterUps(run.n, Len(roms))
    /\ run.kind = "ringDown" => RingPosition = RingAfterDowns(run.n, Len(roms))
    /\ run.kind \in {"ringUp", "ringDown"} =>
          (RingPosition = <<"systems", 0>> <=> run.n = Len(roms) + 2)

\* C7 witness: a full lap of KEY_UP with three systems
C7_Witness ==
    /\ run.kind = "ringUp"
    /\ Len(roms) = 3
    /\ run.n = 5
    /\ view_mode = "systems"
    /\ selected_system = 0

\* C8: KEY_DOWN with the focus on the system column goes
\* Favorites -> All, All -> Systems at index 0, Systems at the last system ->
\* Favorites, Systems elsewhere -> index + 1, and raises nothing.
C8_DownTransitions ==
    [][(mode = "navigate" /\ focus = "systems" /\ lastEvent' = KEY_DOWN) =>
          /\ loop' = "running"
          /\ view_mode = "favorites" => view_mode' = "all"
          /\ view_mode = "all" => view_mode' = "systems" /\ selected_system' = 0
          /\ (view_mode = "systems" /\ selected_system = Len(roms) - 1) =>
                view_mode' = "favorites"
          /\ (view_mode = "systems" /\ selected_system # Len(roms) - 1) =>
                view_mode' = "systems" /\ selected_system' = selected_system + 1]_vars

\* C9: KEY_UP with the focus on the system column goes, for any
\* number of systems, Favorites -> Systems at the last system, All ->
\* Favorites, Systems at index 0 -> All, Systems elsewhere -> index - 1.
C9_UpTransitions ==
    [][(mode = "navigate" /\ focus = "systems" /\ lastEvent' = KEY_UP) =>
          /\ view_mode = "favorites" =>
                /\ view_mode' = "systems"
                /\ selected_system' = Len(roms) - 1
          /\ view_mode = "all" => view_mode' = "favorites"
          /\ (view_mode = "systems" /\ selected_system = 0) => view_mode' = "all"
          /\ (view_mode = "systems" /\ selected_system # 0) =>
                view_mode' = "systems" /\ selected_system' = selected_system - 1]_vars

RECURSIVE IsSubsequence(_, _)
\* a is b with some entries left out
IsSubsequence(a, b) ==
    IF a = <<>> THEN TRUE
    ELSE IF b = <<>> THEN FALSE
    ELSE IF a[1] = b[1] THEN IsSubsequence(Tail(a), Tail(b))
    ELSE IsSubsequence(a, Tail(b))

\* the characters a filter is extended with: '/', 'q', 'b', 'Q'
FilterChars == PrintableKeys \cup {98, 81}

\* C10: for the view, the catalog, the favorites and every filter string s of
\* a reachable state, and every character c, the visible list for s + c is
\* the visible list for s with some entries left out: nothing is added and
\* the order is kept.
C10_FilterMonotone ==
    \A c \in FilterChars :
        IsSubsequence(
            VisibleListOf(view_mode, selected_system, favorites, Append(filter_string, c)),
            VisibleList)

\* C10 witness: a filter that already hides entries, and a character that
\* hides more but not all
C10_Witness ==
    /\ mode = "filter"
    /\ filter_string # <<>>
    /\ Len(VisibleList) < Len(VisibleListOf(view_mode, selected_system, favorites, <<>>))
    /\ \E c \in FilterChars :
          LET l == VisibleListOf(view_mode, selected_system, favorites, Append(filter_string, c))
          IN  l # <<>> /\ Len(l) < Len(VisibleList)

\* C12: Enter (navigate or filter mode) with the focus on a non-empty item
\* list, no tracked process and a configuration for the system of the item
\* makes exactly one Popen call, for the path at selected_rom of the visible
\* list and with the system of that item; when the call succeeds the handle is
\* kept in emulator_process.
C12_EnterLaunchesSelected ==
    [][(EnterOnItem /\ HasConfig(SelectedPair[1])) =>
          /\ Len(launched') = 1
          /\ launched'[1].system = SelectedPair[1]
          /\ launched'[1].rom_path = SelectedPair[2]
          /\ launched'[1].result = "ok" => emulator_process' = "running"
          /\ launched'[1].result # "ok" => emulator_process' = "None"]_vars

\* C12 witness: in All view and filter mode, the second entry, the file of GB
\* that NES lists too, was launched with the configuration of GB
C12_Witness ==
    /\ lastEvent = KEY_ENTER
    /\ prev.mode = "filter"
    /\ prev.selected_rom = 1
    /\ view_mode = "all"
    /\ Len(launched) = 1
    /\ launched[1] = [system |-> "GB", rom_path |-> P_n_b, result |-> "ok"]
    /\ emulator_process = "running"

\* C13: a Popen call that fails, whatever the reason, leaves the loop
\* running and emulator_process None.
C13_FailedLaunchNonFatal ==
    [][(lastEvent' = KEY_ENTER /\ launched' # <<>> /\ launched'[1].result # "ok") =>
          /\ loop' = "running"
          /\ emulator_process' = "None"]_vars

\* C14: filter_string is non-empty only in filter mode, and every step from
\* filter mode to navigate mode leaves filter_string empty, selected_rom 0 and
\* the shown list equal to the unfiltered list of the view.
C14_FilterTextOnlyInFilterMode ==
    /\ [](filter_string # <<>> => mode = "filter")
    /\ [][(mode = "filter" /\ mode' = "navigate") =>
             /\ filter_string' = <<>>
             /\ selected_rom' = 0
             /\ ShownListNext = UnfilteredListNext]_vars

\* C14 witness: Escape was pressed on a filter that hid entries, with the
\* cursor off the first entry, and the whole list is back
C14_Witness ==
    /\ lastEvent = KEY_ESCAPE
    /\ prev.mode = "filter"
    /\ prev.filtered
    /\ prev.selected_rom > 0
    /\ mode = "navigate"
    /\ filter_string = <<>>
    /\ selected_rom = 0
    /\ Len(ShownList) = 5

\* C15: favorites.yaml holds the favorites dict in every state between two
\* events, and the dict changes only in a toggle (F2 or button X).
C15_WriteThrough ==
    /\ [](persisted = favorites)
    /\ [][favorites' # favorites => lastEvent' = KEY_F2]_vars

\* C15 witness: a toggle changed the dict and the file holds the new dict
C15_Witness ==
    /\ lastEvent = KEY_F2
    /\ togHist.n = 1
    /\ favorites # togHist.before
    /\ favorites # <<>>
    /\ persisted = favorites

\* C16: the loop ends only on a quit input that arrives with no tracked
\* process and in navigate mode; 'q' or button B with a process
\* tracked or in filter mode does not end it.
C16_QuitOnlyWhenIdle ==
    [][loop' = "exited" => (emulator_process = "None" /\ mode = "navigate")]_vars

\* C19: every step that changes view_mode leaves selected_rom 0 and the shown
\* list equal to the list derived for the new view, and every step that
\* changes selected_system inside the systems view leaves selected_rom 0.
C19_ViewChangeResetsCursor ==
    [][/\ view_mode' # view_mode =>
             (selected_rom' = 0 /\ ShownListNext = VisibleListNext)
       /\ (view_mode = "systems" /\ view_mode' = "systems"
             /\ selected_system' # selected_system) =>
             (selected_rom' = 0 /\ ShownListNext = VisibleListNext)]_vars

\* C19 witness: KEY_UP left the first system for the All view with the item
\* cursor off the first entry
C19_Witness ==
    /\ run.kind = "ringUp"
    /\ run.n = 1
    /\ view_mode = "all"
    /\ prev.selected_rom > 0
    /\ selected_rom = 0
    /\ ShownList # <<>>

\* C20: Enter with the focus on a non-empty item list and no tracked
\* process leaves, whatever became of the launch, navigate mode, an empty
\* filter_string, selected_rom 0 and the unfiltered list of the view.
C20_EnterResetsFilter ==
    [][EnterOnItem =>
          /\ mode' = "navigate"
          /\ filter_string' = <<>>
          /\ selected_rom' = 0
          /\ ShownListNext = UnfilteredListNext]_vars

\* config.yaml is missing, cannot be read, or does not hold a mapping with a
\* "systems" entry
Unusable(file) ==
    \/ ~file.exists
    \/ ~file.readable
    \/ file.text.kind # "mapping"
    \/ ~file.text.has_systems

\* C18: whatever the state of config.yaml (missing, unreadable,
\* unwritable, invalid, empty, without a systems mapping), the constructor
\* returns, and with the default configuration when the file is unusable.
C18_StartupNeverFails ==
    [][loop = "start" =>
          /\ loop' = "init"
          /\ Unusable(config_file) => roms' = get_roms(DefaultConfig)]_vars

\* 0.3 s + 3 * 0.04 s
HoldTime == initial_delay + 3 * repeat_interval

\* how long the direction of the current hold has been read
HoldSpan == now - hold.start

\* the hold may have lasted d: the direction was pressed after the poll before
\* the first that read it and is let go before the poll to come
MayHaveLasted(d) == HoldSpan < d /\ d < HoldSpan + 2 * period

\* C11 as stated: one direction held from neutral on one source fires
\* exactly 1 event when held for less than 0.3 s and exactly 4 events when
\* held for 0.3 s + 3 * 0.04 s.
C11_Original ==
    hold.src # "none" =>
       /\ HoldSpan < initial_delay => hold.n = 1
       /\ MayHaveLasted(HoldTime) => hold.n = 4

\* x rounded up to a multiple of p
CeilTo(x, p) == ((x + p - 1) \div p) * p

\* the events of a direction read for span at polls p apart: the first poll,
\* the first poll initial_delay or more after it, and from then on every
\* first poll repeat_interval or more after the last event
ExpectedEvents(span, p) ==
    IF span < CeilTo(initial_delay, p) THEN 1
    ELSE 2 + (span - CeilTo(initial_delay, p)) \div CeilTo(repeat_interval, p)

\* C11 amended: with polls a steady period apart, one direction held from
\* neutral on one source has fired ExpectedEvents: exactly 1 event as long as
\* it has been read for less than 0.3 s; held for 0.42 s, exactly 4 events
\* with polls 20 ms apart, and 3 or 4 events with polls 40 ms apart.
C11_HoldEventCount ==
    hold.src # "none" =>
       /\ hold.n = ExpectedEvents(HoldSpan, period)
       /\ HoldSpan < initial_delay => hold.n = 1
       /\ (period = 1 /\ MayHaveLasted(HoldTime)) => hold.n = 4
       /\ (period = 2 /\ MayHaveLasted(HoldTime)) => hold.n = (IF HoldSpan = 18 THEN 3 ELSE 4)

\* C11 witness: the stick held down for 0.42 s with polls 20 ms apart has
\* fired four events
C11_Witness ==
    /\ hold.src = "axis"
    /\ hold.dir = "down"
    /\ period = 1
    /\ MayHaveLasted(HoldTime)
    /\ hold.n = 4

\* C17: emulator_process is set back to None only in an iteration that
\* began with the process terminated; an iteration that begins with the
\* process terminated and runs to its end leaves emulator_process None; and
\* with emulator_process None an Enter on an item of a configured system
\* launches.
C17_PollClearsExitedProcess ==
    /\ [][(emulator_process # "None" /\ emulator_process' = "None") =>
             emulator_process = "exited"]_vars
    /\ [][(emulator_process = "exited" /\ loop' # "crashed" /\ now' # now) =>
             emulator_process' = "None"]_vars
    /\ [][(EnterOnItem /\ HasConfig(SelectedPair[1])) => launched' # <<>>]_vars

\* C17 witness: the emulator had terminated, the Enter of the same iteration
\* came before the poll and launched nothing, and the poll cleared the slot
C17_Witness ==
    /\ prev.emulator_process = "exited"
    /\ emulator_process = "None"
    /\ lastEvent = KEY_ENTER
    /\ launched = <<>>
    /\ focus = "roms"
    /\ ShownList # <<>>

\* F2 is handled with the focus on the item column and an item under the cursor
ToggleOnItem ==
    /\ lastEvent' = KEY_F2
    /\ focus = "roms"
    /\ VisibleList # <<>>

\* C21: a toggle (F2 or button X with the focus on an item) flips the
\* membership of exactly the (system, path) at selected_rom of the visible
\* list of the view as it was before the toggle, filtered or not: a favorite
\* is removed from the list of its system, another path is appended at the end
\* of that list, and the membership and the order of all other favorites stay.
C21_ToggleFlipsSelectedPair ==
    [][ToggleOnItem =>
          LET pair == SelectedPair
              before == DictGet(favorites, pair[1], <<>>)
              after == DictGet(favorites', pair[1], <<>>)
          IN  /\ loop' = "running"
              /\ togHist'.pair = pair
              /\ IsFavorite(favorites', pair) <=> ~IsFavorite(favorites, pair)
              /\ IsFavorite(favorites, pair) =>
                    /\ after = ListRemove(before, pair[2])
                    /\ FavPairs(favorites') = FavPairs(favorites) \ {pair}
              /\ ~IsFavorite(favorites, pair) =>
                    /\ after = Append(before, pair[2])
                    /\ FavPairs(favorites') = FavPairs(favorites) \cup {pair}
              /\ WithoutPair(favorites', pair) = WithoutPair(favorites, pair)]_vars

\* C21 witness: in Favorites view under a filter that hides the first of five
\* favorites, the entry at index 1 of the filtered list was removed
C21_Witness ==
    /\ lastEvent = KEY_F2
    /\ view_mode = "favorites"
    /\ prev.mode = "filter"
    /\ prev.filtered
    /\ prev.selected_rom = 1
    /\ togHist.n = 1
    /\ togHist.before = FavFive
    /\ togHist.pair = <<"PSX", P_p_q>>
    /\ ~IsFavorite(favorites, togHist.pair)
    /\ Len(FlattenDict(favorites)) = 4

\* C22: F2 or button X with the focus on the system column, in navigate
\* and in filter mode, changes neither the favorites, nor the file, nor the
\* cursor, the view or the filter text; and a step into filter mode leaves
\* the focus where it was.
C22_ToggleNeedsItemFocus ==
    /\ [][(lastEvent' = KEY_F2 /\ focus = "systems") =>
             /\ loop' = "running"
             /\ UNCHANGED <<favorites, persisted, selected_rom, view_mode, selected_system,
                            filter_string, mode, focus, filtered_roms>>]_vars
    /\ [][(mode = "navigate" /\ mode' = "filter") => focus' = focus]_vars

\* C22 witness: F2 in filter mode with the focus on the system column, on a
\* list with entries that are not favorites, and nothing was toggled
C22_Witness ==
    /\ lastEvent = KEY_F2
    /\ focus = "systems"
    /\ mode = "filter"
    /\ prev.mode = "filter"
    /\ view_mode = "all"
    /\ VisibleList # <<>>
    /\ togHist = NoToggle
    /\ favorites = FavNone

\* an iteration that polled the controller and left the loop running
PolledStep == controllers = 1 /\ now' # now /\ loop' = "running"

\* how many events of the poll came from direction key of source src
FiredCount(events, src, key) ==
    Cardinality({i \in 1..Len(events) : events[i] = [src |-> src, key |-> key]})

\* what a poll at instant t does for a direction that fired n events, with
\* timestamps f, l before and f2, l2 after: a fresh press fires once and is
\* timed, a held direction repeats when both delays have passed, a neutral
\* direction fires nothing
PollRule(fresh, held, neutral, n, f, l, f2, l2, t) ==
    /\ fresh => (n = 1 /\ f2 = t /\ l2 = t)
    /\ held => IF t - f >= initial_delay /\ t - l >= repeat_interval
               THEN n = 1 /\ l2 = t /\ f2 = f
               ELSE n = 0 /\ l2 = l /\ f2 = f
    /\ neutral => n = 0

\* the rule for the directions of the hat, at every poll
HatPollRule ==
    \A d \in Dirs :
        PollRule(HatActive(pad', d) /\ ~HatActive(pad, d),
                 HatActive(pad', d) /\ HatActive(pad, d),
                 ~HatActive(pad', d),
                 FiredCount(fired', "hat", DirKey(d)),
                 first_hat_event[d], last_hat_event[d],
                 first_hat_event'[d], last_hat_event'[d], now')

\* the rule for the directions of the stick, at the polls that read the
\* stick (the hat neutral); a direction counts as held when the poll before
\* read it active too
AxisPollRule ==
    pad'.hat = <<0, 0>> =>
        \A d \in Dirs :
            PollRule(AxisActive(pad', d) /\ ~AxisActive(pad, d),
                     AxisActive(pad', d) /\ AxisActive(pad, d) /\ pad.hat = <<0, 0>>,
                     ~AxisActive(pad', d),
                     FiredCount(fired', "axis", DirKey(d)),
                     first_axis_event[d], last_axis_event[d],
                     first_axis_event'[d], last_axis_event'[d], now')

\* C23: at every poll, for each direction of each source: active after
\* neutral at the poll before, one event fires and both timestamps are the
\* instant of the poll; active after active, a repeat fires exactly when 0.3 s
\* have passed since the first and 0.04 s since the last event, and then the
\* last timestamp alone is the instant of the poll; otherwise nothing fires
\* and the timestamps stay.  (The stick is taken at the polls that read it.)
C23_PollFiresAndTimes == [][PolledStep => (HatPollRule /\ AxisPollRule)]_vars

\* C24: after every poll, a direction that the hat reads neutral has both
\* its hat timestamps 0, and a direction that the stick reads neutral has both
\* its stick timestamps 0, also while the hat is held.
C24_NeutralResetsTimers ==
    [][PolledStep =>
          \A d \in Dirs :
              /\ ~HatActive(pad', d) =>
                    (first_hat_event'[d] = 0 /\ last_hat_event'[d] = 0)
              /\ ~AxisActive(pad', d) =>
                    (first_axis_event'[d] = 0 /\ last_axis_event'[d] = 0)]_vars

\* the stick is pushed past 0.5 towards direction d
PushedPastHalf(reading, d) ==
    CASE d = "up" -> reading.axis[2] < -5
      [] d = "down" -> reading.axis[2] > 5
      [] d = "left" -> reading.axis[1] < -5
      [] d = "right" -> reading.axis[1] > 5

\* C25: an arrow event comes from the stick only in an iteration whose poll
\* reads the hat neutral on both dimensions, and only for a direction towards
\* which the stick is pushed past 0.5; no stick event fires while the hat is
\* off neutral.
C25_HatSuppressesAxis ==
    [][now' # now =>
          \A i \in 1..Len(fired') :
              fired'[i].src = "axis" =>
                 /\ pad'.hat = <<0, 0>>
                 /\ \E d \in Dirs : DirKey(d) = fired'[i].key /\ PushedPastHalf(pad', d)]_vars

\* C25 witness: the hat is held right while the stick is pushed down and has
\* been for longer than 0.3 s; the poll fired the hat's event alone
C25_Witness ==
    /\ pad = PadHatRightAxisDown
    /\ prev.selected_rom = selected_rom
    /\ fired = << [src |-> "hat", key |-> KEY_RIGHT] >>
    /\ first_axis_event["down"] # 0
    /\ now - first_axis_event["down"] >= initial_delay
    /\ loop = "running"

RECURSIVE ButtonKeys(_)
\* the keys the buttons of a queue stand for, in the order of the queue
ButtonKeys(queue) ==
    IF queue = <<>> THEN <<>>
    ELSE (IF Head(queue) \in {BUTTON_A, BUTTON_X} THEN <<ButtonKey(Head(queue))>> ELSE <<>>)
         \o ButtonKeys(Tail(queue))

\* the events of the iteration now taken, keyboard first, then the buttons,
\* then the arrows of the hat and the stick
EventsInOrder ==
    (IF lastEvent' # NoKey THEN <<lastEvent'>> ELSE <<>>)
    \o ButtonKeys(buttons')
    \o [i \in 1..Len(fired') |-> fired'[i].key]

RECURSIVE HandleAll(_, _, _)
\* the events handled one after the other, each on the state the one before
\* left, up to an exception
HandleAll(s, keys, outcome) ==
    IF keys = <<>> \/ s.exc THEN s
    ELSE HandleAll(handle_input(s, Head(keys), outcome), Tail(keys), outcome)

\* the launcher is left as e, but for the poll and the sleep that follow
LeftAs(e) ==
    /\ view_mode' = e.view_mode
    /\ selected_system' = e.selected_system
    /\ selected_rom' = e.selected_rom
    /\ focus' = e.focus
    /\ mode' = e.mode
    /\ filter_string' = e.filter_string
    /\ filtered_roms' = e.filtered_roms
    /\ favorites' = e.favorites
    /\ persisted' = e.persisted
    /\ launched' = e.launched
    /\ last_selection_change_time' = e.last_selection_change_time
    /\ (loop' = "crashed") = e.exc
    /\ emulator_process' \in
          IF e.exc THEN {e.emulator_process}
          ELSE IF e.emulator_process = "exited" THEN {"None"}
          ELSE IF e.emulator_process = "running" THEN {"running", "exited"}
          ELSE {"None"}

\* 'q' that ends the loop at once (line 1054)
QuitByKey == lastEvent' = KEY_Q /\ emulator_process = "None" /\ mode = "navigate"

\* C26: an iteration of the loop leaves the launcher as handling its events
\* one after the other does: the key, then the buttons in the order of the
\* queue, then the arrows fired by the hat and the stick, each on the state the
\* one before left, and the poll of the process after them all.
C26_TickOrder ==
    [][(now' # now /\ ~QuitByKey) =>
          LeftAs(HandleAll(TickCur, EventsInOrder,
                           IF launched' # <<>> THEN launched'[1].result ELSE "ok"))]_vars

\* C26 witness: the first iteration, the focus on the system column before
\* it, handled KEY_RIGHT, then button A, which launched the favorite now in
\* focus, then the arrow down of the hat
C26_Witness ==
    /\ now = StartTime + 1
    /\ period = 1
    /\ lastEvent = KEY_RIGHT
    /\ buttons = <<BUTTON_A>>
    /\ fired = << [src |-> "hat", key |-> KEY_DOWN] >>
    /\ launched = << [system |-> "GB", rom_path |-> P_n_b, result |-> "ok"] >>
    /\ view_mode = "favorites"
    /\ focus = "roms"
    /\ emulator_process = "running"

\* C27: in filter mode KEY_UP and KEY_DOWN move selected_rom by one and stop
\* at the ends of the visible list: KEY_UP at index 0 and KEY_DOWN at the last
\* index or on an empty list change nothing; whatever the focus, and neither
\* key changes view_mode or selected_system.
C27_FilterArrowsClamp ==
    [][(mode = "filter" /\ lastEvent' \in {KEY_UP, KEY_DOWN}) =>
          /\ lastEvent' = KEY_UP =>
                selected_rom' = IF selected_rom = 0 THEN 0 ELSE selected_rom - 1
          /\ lastEvent' = KEY_DOWN =>
                selected_rom' = IF VisibleList = <<>> \/ selected_rom = Len(VisibleList) - 1
                                THEN selected_rom
                                ELSE selected_rom + 1
          /\ selected_rom' >= 0
          /\ VisibleList # <<>> => selected_rom' <= Len(VisibleList) - 1
          /\ UNCHANGED <<view_mode, selected_system, focus, mode, filter_string>>]_vars

\* C27 witness: KEY_DOWN in filter mode on the last of several entries, the
\* focus on the system column, left the cursor where it was
C27_Witness ==
    /\ lastEvent = KEY_DOWN
    /\ prev.mode = "filter"
    /\ mode = "filter"
    /\ focus = "systems"
    /\ Len(VisibleList) >= 2
    /\ prev.selected_rom = Len(VisibleList) - 1
    /\ selected_rom = Len(VisibleList) - 1

\* Backspace, in one of its three codes, is handled in filter mode
BackspaceInFilter == mode = "filter" /\ lastEvent' \in {KEY_BACKSPACE, KEY_DEL, KEY_BS}

ProbeChars == {32, KEY_SLASH, 81, 98, KEY_Q, 126}

\* the handler that led from s to t appended c to the filter, derived the list
\* for it and put the cursor on its first entry
Typed(s, t, c) ==
    /\ ~t.exc
    /\ t.mode = "filter"
    /\ t.filter_string = Append(s.filter_string, c)
    /\ t.selected_rom = 0
    /\ RomListOf(t) = VisibleListOf(t.view_mode, t.selected_system, t.favorites, t.filter_string)
    /\ t.view_mode = s.view_mode
    /\ t.selected_system = s.selected_system

\* C29: '/' in navigate mode leads to filter mode with filter_string empty,
\* selected_rom 0 and the shown list derived afresh, and leaves view_mode,
\* selected_system, focus, favorites and emulator_process as they were; in
\* filter mode a printable character, '/' and 'q' included, is appended to
\* filter_string, the list is derived for it and selected_rom is 0.
C29_SlashAndPrintable ==
    /\ [][(mode = "navigate" /\ lastEvent' = KEY_SLASH) =>
             /\ mode' = "filter"
             /\ filter_string' = <<>>
             /\ selected_rom' = 0
             /\ ShownListNext = VisibleListNext
             /\ UNCHANGED <<view_mode, selected_system, focus, favorites,
                            emulator_process>>]_vars
    /\ [][(mode = "filter" /\ lastEvent' \in PrintableKeys) =>
             /\ loop' = "running"
             /\ mode' = "filter"
             /\ filter_string' = Append(filter_string, lastEvent')
             /\ selected_rom' = 0
             /\ ShownListNext = VisibleListNext]_vars
    /\ []((mode = "filter" /\ loop = "running") =>
             \A c \in ProbeChars : Typed(Cur, handle_input(Cur, c, "ok"), c))

\* C29 witness: '/' and then 'q' were typed in filter mode with no process
\* tracked; the filter is "/q" and the loop goes on
C29_Witness ==
    /\ lastEvent = KEY_Q
    /\ prev.mode = "filter"
    /\ prev.emulator_process = "None"
    /\ mode = "filter"
    /\ filter_string = <<KEY_SLASH, KEY_Q>>
    /\ selected_rom = 0
    /\ loop = "running"

(* ------------------- keys read at successive instants ------------------- *)
\* the clock value after which no further key is read
MaxClock == 5

\* lines 1030-1055, 845: a key read one instant after the step before it, so
\* that time.time() in the handler differs from every earlier stamp
TimedKeyboardEvent ==
    /\ now < MaxClock
    /\ KeyboardEventAt(now + 1)

ClockNext == MainSetup \/ TimedKeyboardEvent

ClockSpec == Init /\ [][ClockNext]_vars

\* C30: for every key that handle_input handled and returned from, the
\* selection timestamp equals the time of the event exactly when selected_rom,
\* view_mode or selected_system differs from its value before the event, and
\* keeps its earlier value when none of the three changed.
C30_StampIffSelectionChanged ==
    [][(lastEvent' # NoKey /\ now' # now /\ loop' = "running") =>
          /\ (last_selection_change_time' = now') <=>
                (\/ selected_rom' # selected_rom
                 \/ view_mode' # view_mode
                 \/ selected_system' # selected_system)
          /\ (/\ selected_rom' = selected_rom
              /\ view_mode' = view_mode
              /\ selected_system' = selected_system)
                => last_selection_change_time' = last_selection_change_time]_vars

\* C30 witness: an earlier key moved the selection and was stamped; the F2
\* after it toggled a favorite without changing any of the three, and the
\* stamp still holds the earlier time
C30_Witness ==
    /\ lastEvent = KEY_F2
    /\ togHist # NoToggle
    /\ prev.selected_rom = selected_rom
    /\ last_selection_change_time > 0
    /\ last_selection_change_time < now
    /\ loop = "running"

(* --------------------------- the three lists --------------------------- *)
\* the file name a filter is matched against: of a path (Systems view) or of
\* the path of a (system, path) pair
ItemName(view, item) == lower(basename(IF view = "systems" THEN item ELSE item[2]))

RECURSIVE Restricted(_, _, _)
\* base with the entries left out whose file name does not contain the
\* lower-cased filter, the others in their order
Restricted(view, base, filter) ==
    IF base = <<>> THEN <<>>
    ELSE (IF StrContains(lower(filter), ItemName(view, base[1])) THEN <<base[1]>> ELSE <<>>)
         \o Restricted(view, Tail(base), filter)

\* how often x occurs in l
Occurrences(l, x) == Cardinality({i \in 1..Len(l) : l[i] = x})

\* l holds the (system, path) pairs of the catalog, each as often as the
\* catalog does, in an order in which the lower-cased file names never decrease
SortedCatalog(l) ==
    /\ Len(l) = Len(FlattenDict(roms))
    /\ \A i \in 1..Len(l) : Occurrences(l, l[i]) = Occurrences(FlattenDict(roms), l[i])
    /\ \A i \in 1..(Len(l) - 1) : ~StrLess(SortKey(l[i + 1]), SortKey(l[i]))

\* the paths of the selected system in the order of the catalog
SystemPaths ==
    IF InRange(roms, selected_system) THEN PyIndex(roms, selected_system).v ELSE <<>>

\* filters tried on every list: none, a letter in either case, two letters, a
\* letter of the directory only, the separator
ProbeFilters ==
    {<<>>, <<KEY_Q>>, <<81>>, <<98>>, <<KEY_Q, 98>>, <<81, KEY_Q>>, <<112>>, <<KEY_SLASH>>}

\* C31: for the view, the selected system and the favorites of every reachable
\* state, and for its filter string as for every probe filter, the visible list
\* is the base list of the view restricted to the entries whose file name
\* contains the filter case-insensitively, in the order of the base list; the
\* base list is the selected system's paths in catalog order (Systems), the
\* pairs of the catalog sorted by lower-cased file name (All), the pairs of the
\* favorites system by system in insertion order (Favorites), and the empty
\* filter yields the whole base list.
C31_VisibleListIsRestrictedBase ==
    /\ VisibleListOf("systems", selected_system, favorites, <<>>) = SystemPaths
    /\ SortedCatalog(VisibleListOf("all", selected_system, favorites, <<>>))
    /\ VisibleListOf("favorites", selected_system, favorites, <<>>) = FlattenDict(favorites)
    /\ \A f \in ProbeFilters \cup {filter_string} :
          VisibleListOf(view_mode, selected_system, favorites, f) =
             Restricted(view_mode,
                        VisibleListOf(view_mode, selected_system, favorites, <<>>), f)

\* C31 witness: the All view of the three-system catalog under the filter "q":
\* of its three entries, sorted b, b, Q, only "m/Q" is left
C31_Witness ==
    /\ view_mode = "all"
    /\ filter_string = <<KEY_Q>>
    /\ VisibleListOf("all", selected_system, favorites, <<>>) =
          << <<"NES", P_n_b>>, <<"GB", P_n_b>>, <<"NES", P_m_Q>> >>
    /\ VisibleList = << <<"NES", P_m_Q>> >>
    /\ ShownList = VisibleList

\* C32: the toggle key with the focus on the item column and an empty visible
\* list raises no error and leaves favorites, the file, the cursor and the view
\* as they were, in each of the three views.
C32_ToggleOnEmptyListIsNoOp ==
    [][(/\ lastEvent' = KEY_F2
        /\ loop = "running"
        /\ focus = "roms"
        /\ VisibleList = <<>>) =>
          /\ loop' = "running"
          /\ UNCHANGED <<favorites, persisted, selected_rom, view_mode,
                         selected_system, filter_string, mode, focus>>]_vars

\* C33: after every handled event the list read out of self.filtered_roms for
\* the current view and selected system is the list the filter engine derives
\* from view_mode, selected_system, favorites and filter_string.
C33_CacheIsFresh ==
    loop = "running" => ShownList = VisibleList

\* C33 witness: a toggle in Favorites view removed an entry of the visible
\* list, and the cached list is the shorter one
C33_Witness ==
    /\ loop = "running"
    /\ lastEvent = KEY_F2
    /\ view_mode = "favorites"
    /\ togHist.n = 1
    /\ Len(ShownList) < Len(FlattenDict(togHist.before))
    /\ ShownList # <<>>
    /\ ShownList = VisibleList

(* ------------------------- arrows in filter mode ------------------------ *)
\* the hat, and the stick, pushed in one of the four directions
PadProbes ==
    {[hat |-> h, axis |-> <<0, 0>>] : h \in {<<0, 1>>, <<0, -1>>, <<1, 0>>, <<-1, 0>>}}
    \cup {[hat |-> <<0, 0>>, axis |-> a] :
            a \in {<<0, -10>>, <<0, 10>>, <<-10, 0>>, <<10, 0>>}}

\* the poll that led from s to t fired one arrow event that changed nothing
\* but the item cursor, and not even that when the arrow points sideways
ArrowInFilterMode(s, t, sideways) ==
    /\ ~t.exc
    /\ Len(t.fired) = 1
    /\ t.view_mode = s.view_mode
    /\ t.selected_system = s.selected_system
    /\ t.focus = s.focus
    /\ t.mode = s.mode
    /\ t.filter_string = s.filter_string
    /\ t.filtered_roms = s.filtered_roms
    /\ t.favorites = s.favorites
    /\ t.emulator_process = s.emulator_process
    /\ t.launched = <<>>
    /\ sideways => t.selected_rom = s.selected_rom

\* C34: in filter mode no event changes view_mode, selected_system or focus;
\* KEY_UP and KEY_DOWN change nothing but selected_rom (and the stamp of the
\* selection), whatever the focus; KEY_LEFT and KEY_RIGHT change nothing; and
\* the same holds for the arrow events a poll of the hat or of the stick fires.
C34_FilterModeFrame ==
    /\ [][mode = "filter" => UNCHANGED <<view_mode, selected_system, focus>>]_vars
    /\ [][(mode = "filter" /\ lastEvent' \in {KEY_UP, KEY_DOWN, KEY_LEFT, KEY_RIGHT}) =>
             /\ loop' = "running"
             /\ UNCHANGED <<view_mode, selected_system, focus, mode, filter_string,
                            filtered_roms, favorites, persisted, emulator_process>>
             /\ launched' = <<>>
             /\ lastEvent' \in {KEY_LEFT, KEY_RIGHT} =>
                   UNCHANGED <<selected_rom, last_selection_change_time>>]_vars
    /\ []((mode = "filter" /\ loop = "running") =>
             \A r \in PadProbes :
                ArrowInFilterMode(TickCur, PadPhase(TickCur, r, now + period),
                                  r.hat[1] # 0 \/ r.axis[1] # 0))

\* C34 witness: KEY_DOWN in filter mode with the focus on the system column
\* moved the item cursor and left the view where it was
C34_Witness ==
    /\ lastEvent = KEY_DOWN
    /\ prev.mode = "filter"
    /\ mode = "filter"
    /\ focus = "systems"
    /\ view_mode = "systems"
    /\ selected_rom = prev.selected_rom + 1
    /\ loop = "running"

\* C35: in every reachable state selected_system is a position of the system
\* list: 0 <= selected_system <= max(M - 1, 0), M the number of configured
\* systems, whatever M is.
C35_SystemIndexInRange ==
    /\ selected_system >= 0
    /\ selected_system <= Max(Len(roms) - 1, 0)

\* the (system, path) of the i-th line of the item window (lines 440-446)
DisplayedPair(i) ==
    IF view_mode = "systems"
    THEN <<PyIndex(DictKeys(roms), selected_system), ShownList[i]>>
    ELSE ShownList[i]

\* C36: every displayed item (system, path) is marked as favorite exactly when
\* path is in favorites[system], also when the catalog lists the path under
\* two systems.
C36_StarAgreesWithFavorites ==
    loop = "running" =>
       \A i \in 1..Len(ShownList) :
          is_favorite(favorites, DisplayedPair(i)[2]) <=> IsFavorite(favorites, DisplayedPair(i))

\* C37: a toggle of the item under the cursor in Systems view or in All view
\* changes favorites and the file, and nothing else: the visible list, the
\* cached list, selected_rom, view_mode, selected_system, focus, mode,
\* filter_string, the catalog, the process slot and the stamp of the selection
\* are as before.
C37_ToggleFrameOutsideFavorites ==
    [][(ToggleOnItem /\ view_mode \in {"systems", "all"}) =>
          /\ loop' = "running"
          /\ favorites' # favorites
          /\ persisted' = favorites'
          /\ VisibleListNext = VisibleList
          /\ ShownListNext = ShownList
          /\ UNCHANGED <<selected_rom, view_mode, selected_system, focus, mode,
                         filter_string, roms, emulator_process,
                         last_selection_change_time>>]_vars

\* C37 witness: in All view the second entry was made a favorite; the cursor is
\* still on it and the list still has its three entries
C37_Witness ==
    /\ lastEvent = KEY_F2
    /\ view_mode = "all"
    /\ togHist.n = 1
    /\ favorites # togHist.before
    /\ selected_rom = 1
    /\ prev.selected_rom = 1
    /\ togHist.pair = ShownList[2]
    /\ Len(ShownList) = 3
    /\ loop = "running"

\* C38: Enter (the key or button A) with the focus on the system column, or
\* with an empty visible list, changes no state: no Popen call is made, and
\* mode, filter_string, selected_rom, view_mode, selected_system, focus,
\* favorites, the cached lists, the process slot and the stamp of the
\* selection are as before; in filter mode the filter stays as typed.
C38_EnterWithoutItemIsNoOp ==
    [][(/\ lastEvent' = KEY_ENTER
        /\ loop = "running"
        /\ (focus = "systems" \/ VisibleList = <<>>)) =>
          /\ loop' = "running"
          /\ launched' = <<>>
          /\ UNCHANGED <<mode, filter_string, selected_rom, view_mode, selected_system,
                         focus, favorites, persisted, filtered_roms, emulator_process,
                         last_selection_change_time>>]_vars

\* C38 witness: Enter in filter mode with a filter typed, entries shown and no
\* process tracked, but the focus on the system column: nothing was launched
\* and the filter is still there
C38_Witness ==
    /\ lastEvent = KEY_ENTER
    /\ prev.mode = "filter"
    /\ prev.emulator_process = "None"
    /\ mode = "filter"
    /\ filter_string # <<>>
    /\ focus = "systems"
    /\ ShownList # <<>>
    /\ launched = <<>>
    /\ emulator_process = "None"
    /\ loop = "running"

====
